---- MODULE Spec2Model ----
(***************************************************************************)
(* Model of pynfe/processamento/serializacao.py: the XML serialization of  *)
(* a Nota Fiscal (SerializacaoXML), of an event (serializar_evento) and    *)
(* the NFC-e QR code (SerializacaoQrcode.gerar_qrcode).                    *)
(*                                                                         *)
(* Data representation                                                     *)
(*   - Python None is <<>>.  A Decimal (or int) is <<m, e>>: the value     *)
(*     m * 10^-e, m >= 0, as Decimal keeps its exponent (str(Decimal(      *)
(*     '18.00')) is '18.00').  A present string s is <<s>> when the        *)
(*     attribute may also be None, and the plain string otherwise.         *)
(*   - An lxml element is [tag, attr, text, kids]; text None and text ''   *)
(*     are both "" (they serialize alike).                                 *)
(*   - The result of a call is [st |-> "ok", val |-> ...] or               *)
(*     [st |-> "raise", err |-> <exception class>].                        *)
(***************************************************************************)
EXTENDS Integers, Sequences, FiniteSets, TLC

VARIABLES
    prod,     \* SpecItem: the produto_servico record given to the call
    ctx,      \* SpecItem: modelo and nota_fiscal arguments of the call
    nf,       \* SpecNF: the NotaFiscal record (the call may write to it)
    eng,      \* SpecNF/SpecEvento: the Serializacao instance's fields
    evento,   \* SpecEvento: the event record
    qr,       \* SpecQr: the arguments of gerar_qrcode
    fonte,    \* SpecExportar: the data source of the Serializacao instance
    hist,     \* SpecExportar: the exportar calls made so far, oldest first
    pc,       \* SpecChamadas: where each caller stands in its call
    inicial,  \* SpecChamadas: the document records as first handed to the callers
    ret       \* the outcome of the call, [st |-> "none"] before it

vars == <<prod, ctx, nf, eng, evento, qr, fonte, hist, pc, inicial, ret>>

-----------------------------------------------------------------------------
(* Python values *)

None == <<>>

Dec(m, e) == <<m, e>>

Int0 == Dec(0, 0)

\* Python truthiness of a Decimal-or-None attribute.
Truthy(x) == x # None /\ x[1] # 0

\* `x or 0`
OrZero(x) == IF Truthy(x) THEN x ELSE Int0

\* Python truthiness of a str-or-None attribute.
TruthyStr(s) == s # None /\ s[1] # ""

\* the text lxml keeps for a str-or-None value
TextOf(s) == IF s = None THEN "" ELSE s[1]

RECURSIVE Pow10(_)
Pow10(k) == IF k = 0 THEN 1 ELSE 10 * Pow10(k - 1)

RECURSIVE PadZeros(_, _)
PadZeros(n, w) == IF w = 0 THEN "" ELSE PadZeros(n \div 10, w - 1) \o ToString(n % 10)

\* the marker left in a text by an expression that raises TypeError
TypeErrorMark == "<TypeError>"

\* Decimal.quantize to p places, ROUND_HALF_EVEN (what format() applies)
Quantize(d, p) ==
    IF d[2] <= p
    THEN d[1] * Pow10(p - d[2])
    ELSE LET k == Pow10(d[2] - p)
             q == d[1] \div k
             r == d[1] % k
         IN IF 2 * r > k \/ (2 * r = k /\ q % 2 = 1) THEN q + 1 ELSE q

\* '{:.<p>f}'.format(d); None has no such format: TypeError
Fmt(d, p) ==
    IF d = None THEN TypeErrorMark
    ELSE LET q == Quantize(d, p)
         IN ToString(q \div Pow10(p)) \o "." \o PadZeros(q % Pow10(p), p)

Fmt2(d) == Fmt(d, 2)

Fmt4(d) == Fmt(d, 4)

\* str(d) of a Decimal or int; str(None) is 'None'
Str(d) ==
    IF d = None THEN "None"
    ELSE IF d[2] = 0 THEN ToString(d[1])
    ELSE ToString(d[1] \div Pow10(d[2])) \o "." \o PadZeros(d[1] % Pow10(d[2]), d[2])

-----------------------------------------------------------------------------
(* lxml elements *)

Element(tag, attr, text, kids) == [tag |-> tag, attr |-> attr, text |-> text, kids |-> kids]

\* etree.SubElement(parent, tag).text = text
Leaf(tag, text) == Element(tag, <<>>, text, <<>>)

\* an element that only holds children
Node(tag, kids) == Element(tag, <<>>, "", kids)

\* a child list with an optional part
Opt(cond, kids) == IF cond THEN kids ELSE <<>>

Tags(kids) == [i \in 1..Len(kids) |-> kids[i].tag]

HasTag(kids, tag) == \E i \in 1..Len(kids) : kids[i].tag = tag

CountTag(kids, tag) == Cardinality({i \in 1..Len(kids) : kids[i].tag = tag})

\* element.find(tag): the first child with the tag (callers check HasTag)
Find(kids, tag) == kids[CHOOSE i \in 1..Len(kids) :
                          kids[i].tag = tag /\ \A j \in 1..(i - 1) : kids[j].tag # tag]

\* the text of the first child with the tag, "" when there is none
TextAt(kids, tag) == IF HasTag(kids, tag) THEN Find(kids, tag).text ELSE ""

\* variant of RemoveAll that removes nothing
RemoveAll_nada(kids, tag) == kids

\* for child in element.findall(tag): element.remove(child)
RemoveAll(kids, tag) == SelectSeq(kids, LAMBDA k : k.tag # tag)

\* does evaluating the texts of this subtree raise TypeError?
RECURSIVE RaisesIn(_)
RaisesIn(kids) ==
    \E i \in 1..Len(kids) : kids[i].text = TypeErrorMark \/ RaisesIn(kids[i].kids)

Ok(val) == [st |-> "ok", val |-> val]

Raise(err) == [st |-> "raise", err |-> err]

NotCalled == [st |-> "none"]

-----------------------------------------------------------------------------
(* SerializacaoXML._serializar_produto_servico *)

\* an attribute the object does not have: reading it raises AttributeError
Absent == <<"absent", "attribute", "AttributeError">>

\* the children of <prod>, lines 235-298
ProdKids(p) ==
    <<Leaf("cProd", p.codigo), Leaf("cEAN", p.ean), Leaf("xProd", p.descricao),
      Leaf("NCM", p.ncm)>>
    \o Opt(TruthyStr(p.cest) /\ p.icms_modalidade \in {"41", "60", "70", "201", "400", "500"},
           <<Leaf("CEST", TextOf(p.cest))>>)
    \o Opt(TruthyStr(p.cbenef), <<Leaf("cBenef", TextOf(p.cbenef))>>)
    \o <<Leaf("CFOP", p.cfop), Leaf("uCom", p.unidade_comercial),
         Leaf("qCom", Str(OrZero(p.quantidade_comercial))),
         Leaf("vUnCom", Fmt4(OrZero(p.valor_unitario_comercial))),
         Leaf("vProd", Fmt2(OrZero(p.valor_total_bruto))),
         Leaf("cEANTrib", p.ean_tributavel), Leaf("uTrib", p.unidade_tributavel),
         Leaf("qTrib", Str(p.quantidade_tributavel)),
         Leaf("vUnTrib", Fmt4(OrZero(p.valor_unitario_tributavel)))>>
    \o Opt(Truthy(p.total_frete), <<Leaf("vFrete", Fmt2(p.total_frete))>>)
    \o Opt(Truthy(p.desconto), <<Leaf("vDesc", Fmt2(p.desconto))>>)
    \o Opt(Truthy(p.outras_despesas_acessorias),
           <<Leaf("vOutro", Fmt2(p.outras_despesas_acessorias))>>)
    \o <<Leaf("indTot", Str(p.ind_total))>>
    \* try: xped, nitemped  except: traceback.print_exc()   (lines 277-283)
    \o Opt(p.xped # Absent /\ TruthyStr(p.xped), <<Leaf("xPed", TextOf(p.xped))>>)
    \o Opt(p.xped # Absent /\ p.nitemped # Absent /\ TruthyStr(p.nitemped),
           <<Leaf("nItemPed", TextOf(p.nitemped))>>)
    \o Opt(TruthyStr(p.numero_pedido), <<Leaf("xPed", TextOf(p.numero_pedido))>>)
    \o Opt(TruthyStr(p.numero_item), <<Leaf("nItemPed", TextOf(p.numero_item))>>)
    \o Opt(TruthyStr(p.nfci), <<Leaf("nFCI", TextOf(p.nfci))>>)

\* did the try block of lines 277-283 swallow an exception (and print a trace)?
XpedSwallowed(p) == p.xped = Absent \/ p.nitemped = Absent

icms_csosn == {"102", "103", "300", "400"}

\* nota_fiscal and nota_fiscal.cliente_final and not produto_servico.icms_st_retido
\* variant of PresumidoZero that does not look at icms_st_retido
PresumidoZero_sem_retido(p, c) ==
    c.nota # None /\ c.nota[1].cliente_final # 0

PresumidoZero(p, c) ==
    c.nota # None /\ c.nota[1].cliente_final # 0 /\ ~p.icms_st_retido

\* the Poverty-Combat-Fund fields, emitted when fcp_valor is set
FcpKids(p) ==
    Opt(Truthy(p.fcp_valor),
        <<Leaf("vBCFCP", Fmt2(OrZero(p.fcp_base_calculo))),
          Leaf("pFCP", Fmt2(OrZero(p.fcp_percentual))),
          Leaf("vFCP", Fmt2(OrZero(p.fcp_valor)))>>)

\* variant of BaseAliqValor that writes the values with str(), unformatted
BaseAliqValor_sem_formato(p) ==
    <<Leaf("vBC", Str(OrZero(p.icms_valor_base_calculo))),
      Leaf("pICMS", Str(OrZero(p.icms_aliquota))),
      Leaf("vICMS", Str(OrZero(p.icms_valor)))>>

\* vBC, pICMS, vICMS as codes 00, 10 and 90 emit them
BaseAliqValor(p) ==
    <<Leaf("vBC", Fmt2(OrZero(p.icms_valor_base_calculo))),
      Leaf("pICMS", Fmt2(OrZero(p.icms_aliquota))),
      Leaf("vICMS", Fmt2(OrZero(p.icms_valor)))>>

\* pRedBC, vBC, pICMS, vICMS as codes 20, 70 and 51 emit them
ReducaoBaseAliqValor(p) ==
    <<Leaf("pRedBC", Fmt4(OrZero(p.icms_percentual_reducao_bc)))>> \o BaseAliqValor(p)

\* lines 369-384: the two sub-variants of CSOSN 500
Icms500Kids(p, c) ==
    IF PresumidoZero(p, c)
    THEN <<Leaf("vBCSTRet", Fmt2(Int0)), Leaf("pST", Fmt4(Int0)),
           Leaf("vICMSSubstituto", Fmt2(OrZero(p.icms_st_substituto))),
           Leaf("vICMSSTRet", Fmt2(Int0)),
           Leaf("pRedBCEfet", Fmt4(OrZero(p.icms_st_percentual_reducao_bc))),
           Leaf("vBCEfet", Fmt2(OrZero(p.icms_st_valor_base_calculo))),
           Leaf("pICMSEfet", Fmt4(OrZero(p.icms_st_aliquota))),
           Leaf("vICMSEfet", Fmt2(OrZero(p.icms_st_valor)))>>
    ELSE <<Leaf("vBCSTRet", Fmt2(OrZero(p.icms_st_valor_base_calculo))),
           Leaf("pST", Fmt4(OrZero(p.icms_st_aliquota))),
           Leaf("vICMSSubstituto", Fmt2(p.icms_st_substituto)),
           Leaf("vICMSSTRet", Fmt2(p.icms_st_valor))>>

\* lines 462-477: the two sub-variants of CST 60
Icms60Kids(p, c) ==
    IF PresumidoZero(p, c)
    THEN <<Leaf("vBCSTRet", Fmt2(Int0)), Leaf("pST", Fmt4(Int0)),
           Leaf("vICMSSubstituto", Fmt2(OrZero(p.icms_st_substituto))),
           Leaf("vICMSSTRet", Fmt2(Int0)),
           Leaf("pRedBCEfet", Fmt4(OrZero(p.icms_st_percentual_reducao_bc))),
           Leaf("vBCEfet", Fmt2(OrZero(p.icms_st_valor_base_calculo))),
           Leaf("pICMSEfet", Fmt4(OrZero(p.icms_st_aliquota))),
           Leaf("vICMSEfet", Fmt2(OrZero(p.icms_st_valor)))>>
    ELSE <<Leaf("vBCSTRet", Fmt2(OrZero(p.icms_st_valor_base_calculo))),
           Leaf("pST", Fmt4(OrZero(p.icms_st_aliquota))),
           Leaf("vICMSSubstituto", Fmt2(OrZero(p.icms_st_substituto))),
           Leaf("vICMSSTRet", Fmt2(Int0))>>

\* modBCST .. vICMSST of codes 10 and 70 (lines 412-419, 430-437)
StKids(p, fmtBase) ==
    <<Leaf("modBCST", Str(OrZero(p.icms_st_modalidade_determinacao_bc)))>>
    \o Opt(Truthy(p.icms_st_percentual_adicional),
           <<Leaf("pMVAST", Str(OrZero(p.icms_st_percentual_adicional)))>>)
    \o Opt(Truthy(p.icms_st_percentual_reducao_bc),
           <<Leaf("pRedBCST", Str(OrZero(p.icms_st_percentual_reducao_bc)))>>)
    \o <<Leaf("vBCST", IF fmtBase THEN Fmt2(OrZero(p.icms_st_valor_base_calculo))
                       ELSE Str(OrZero(p.icms_st_valor_base_calculo))),
         Leaf("pICMSST", Str(OrZero(p.icms_st_aliquota))),
         Leaf("vICMSST", IF fmtBase THEN Fmt2(OrZero(p.icms_st_valor))
                         ELSE Str(OrZero(p.icms_st_valor)))>>

\* modBCST, vBCST, pICMSST, vICMSST of codes 30 and 90 (lines 448-451, 489-492)
StKidsCurto(p) ==
    <<Leaf("modBCST", Str(OrZero(p.icms_st_modalidade_determinacao_bc))),
      Leaf("vBCST", Str(OrZero(p.icms_st_valor_base_calculo))),
      Leaf("pICMSST", Str(OrZero(p.icms_st_aliquota))),
      Leaf("vICMSST", Str(OrZero(p.icms_st_valor)))>>

\* lines 394-492: the branch "OUTROS TIPOS DE ICMS", entered by every code that no
\* earlier branch took; a code none of the inner tests names keeps orig, CST, modBC
IcmsOutros(p, c) ==
    LET m == p.icms_modalidade
        cabeca == <<Leaf("orig", Str(p.icms_origem)), Leaf("CST", m)>>
                  \o Opt(m \notin {"40", "50"},
                         <<Leaf("modBC", Str(p.icms_modalidade_determinacao_bc))>>)
    IN Node("ICMS" \o m,
         CASE m = "00" -> cabeca \o BaseAliqValor(p)
           [] m = "10" -> cabeca \o BaseAliqValor(p) \o StKids(p, FALSE)
           [] m \in {"20", "70"} ->
                cabeca \o ReducaoBaseAliqValor(p)
                \o Opt(m = "70", StKids(p, TRUE)) \o FcpKids(p)
           [] m = "30" -> RemoveAll(cabeca, "modBC") \o StKidsCurto(p)
           [] m = "51" -> cabeca \o ReducaoBaseAliqValor(p)
           [] m = "60" -> RemoveAll(cabeca, "modBC") \o Icms60Kids(p, c)
           [] m = "90" -> cabeca \o BaseAliqValor(p) \o StKidsCurto(p)
           [] OTHER -> cabeca)

\* does the test of line 319 read nota_fiscal.emitente of a nota_fiscal that is None?
Icms201SemNota(p, c) == p.icms_modalidade = "201" /\ c.nota = None

\* lines 309-492: the one child of <ICMS>
IcmsItem(p, c) ==
    LET m == p.icms_modalidade
        sn == <<Leaf("orig", Str(p.icms_origem)), Leaf("CSOSN", TextOf(p.icms_csosn))>>
        cred == <<Leaf("pCredSN", Str(p.icms_aliquota)),
                  Leaf("vCredICMSSN", Fmt2(OrZero(p.icms_credito)))>>
    IN CASE m \in icms_csosn -> Node("ICMSSN102", sn)
         [] m = "101" -> Node("ICMSSN" \o m, sn \o cred)
         [] m = "201" /\ c.nota # None /\ c.nota[1].crt = 1 ->
              Node("ICMSSN201",
                   sn \o <<Leaf("modBCST", Str(p.icms_modalidade_determinacao_bc)),
                           Leaf("pMVAST", Fmt2(OrZero(p.icms_st_percentual_adicional))),
                           Leaf("pRedBCST", Fmt2(OrZero(p.icms_st_valor_base_calculo))),
                           Leaf("vBCST", Fmt2(OrZero(p.icms_st_valor_base_calculo))),
                           Leaf("pICMSST", Fmt4(OrZero(p.icms_st_aliquota))),
                           Leaf("vICMSST", Fmt2(OrZero(p.icms_st_valor)))>>
                   \o FcpKids(p) \o cred)
         [] m = "900" ->
              Node("ICMSSN900",
                   sn \o <<Leaf("modBC", Str(p.icms_modalidade_determinacao_bc)),
                           Leaf("vBC", Fmt2(OrZero(p.icms_valor_base_calculo))),
                           Leaf("pRedBC", Fmt4(OrZero(p.icms_percentual_reducao_bc))),
                           Leaf("pICMS", Fmt2(OrZero(p.icms_aliquota))),
                           Leaf("vICMS", Fmt2(OrZero(p.icms_valor))),
                           Leaf("modBCST", Str(OrZero(p.icms_st_modalidade_determinacao_bc))),
                           Leaf("pMVAST", Fmt4(OrZero(p.icms_st_percentual_adicional))),
                           Leaf("pRedBCST", Fmt4(OrZero(p.icms_st_percentual_reducao_bc))),
                           Leaf("vBCST", Fmt2(OrZero(p.icms_st_valor_base_calculo))),
                           Leaf("pICMSST", Fmt4(OrZero(p.icms_st_aliquota))),
                           Leaf("vICMSST", Fmt2(OrZero(p.icms_st_valor)))>>)
         [] m = "ST" ->
              Node("ICMS" \o m,
                   <<Leaf("orig", Str(p.icms_origem)), Leaf("CST", "41"),
                     Leaf("vBCSTRet", ""), Leaf("vICMSSTRet", ""),
                     Leaf("vBCSTDest", ""), Leaf("vICMSSTDest", "")>>)
         [] m = "500" -> Node("ICMSSN" \o m, sn \o Icms500Kids(p, c))
         [] m \in {"40", "41", "50"} ->
              Node("ICMS40", <<Leaf("orig", Str(p.icms_origem)), Leaf("CST", m)>>)
         [] OTHER -> IcmsOutros(p, c)

\* lines 498-506
IssqnKids(p) ==
    Opt(Truthy(p.issqn_valor_base_calculo),
        <<Node("ISSQN",
               <<Leaf("vBC", Fmt2(OrZero(p.issqn_valor_base_calculo))),
                 Leaf("vAliq", Fmt2(OrZero(p.issqn_aliquota))),
                 Leaf("vISSQN", Fmt2(OrZero(p.issqn_valor))),
                 Leaf("cMunFG", p.issqn_municipio),
                 Leaf("cListServ", p.issqn_lista_servico),
                 Leaf("indISS", p.issqn_indiss),
                 Leaf("indIncentivo", p.issqn_indincentivo)>>)>>)

\* variant of ipi_tributado without situation code 99
ipi_tributado_sem_99 == {"00", "49", "50"}

ipi_tributado == {"00", "49", "50", "99"}

\* variant of IpiKids without the test of line 511 on the service-tax base
IpiKids_sem_teste_issqn(p) ==
    Opt(p.icms_modalidade \notin {"41"} /\ TruthyStr(p.ipi_codigo_enquadramento),
        <<Node("IPI", <<Leaf("cEnq", TextOf(p.ipi_codigo_enquadramento))>>)>>)

\* lines 510-524
IpiKids(p) ==
    Opt(/\ p.icms_modalidade \notin {"41"}
        /\ ~Truthy(p.issqn_valor_base_calculo)
        /\ TruthyStr(p.ipi_codigo_enquadramento),
        <<Node("IPI",
               <<Leaf("cEnq", TextOf(p.ipi_codigo_enquadramento))>>
               \o Opt(TruthyStr(p.ipi_situacao_tributaria),
                      IF TextOf(p.ipi_situacao_tributaria) \in ipi_tributado
                      THEN <<Node("IPITrib",
                                  <<Leaf("CST", TextOf(p.ipi_situacao_tributaria)),
                                    Leaf("vBC", Fmt2(OrZero(p.ipi_valor_base_calculo))),
                                    Leaf("pIPI", Fmt2(OrZero(p.ipi_aliquota))),
                                    Leaf("vIPI", Fmt2(OrZero(p.ipi_valor_ipi)))>>)>>
                      ELSE <<Node("IPINT",
                                  <<Leaf("CST", TextOf(p.ipi_situacao_tributaria))>>)>>))>>)

pisnt == {"04", "05", "06", "07", "08", "09"}

cofinsnt == {"04", "05", "06", "07", "08", "09"}

\* lines 529-555: the <PIS> group
PisNode(p) ==
    LET m == p.pis_modalidade
        cst == <<Leaf("CST", m)>>
        vpis == <<Leaf("vPIS", Fmt2(OrZero(p.pis_valor)))>>
    IN Node("PIS",
         <<CASE m \in pisnt -> Node("PISNT", cst)
             [] m \in {"01", "02"} ->
                  Node("PISAliq",
                       cst \o <<Leaf("vBC", Fmt2(OrZero(p.pis_valor_base_calculo))),
                                Leaf("pPIS", Fmt2(OrZero(p.pis_aliquota_percentual)))>>
                       \o vpis)
             [] m = "03" ->
                  Node("PISQtde",
                       cst \o <<Leaf("qBCProd", Fmt4(p.quantidade_comercial)),
                                Leaf("vAliqProd", Str(p.pis_aliquota_percentual))>>
                       \o vpis)
             [] OTHER ->
                  Node("PISOutr",
                       cst
                       \o (IF Truthy(p.pis_aliquota_percentual)
                           THEN <<Leaf("vBC", Fmt2(OrZero(p.pis_valor_base_calculo))),
                                  Leaf("pPIS", Fmt2(OrZero(p.pis_aliquota_percentual)))>>
                           ELSE <<Leaf("qBCProd", Fmt4(p.quantidade_comercial)),
                                  Leaf("vAliqProd", Str(p.pis_aliquota_percentual))>>)
                       \o vpis)>>)

\* lines 565-592: the <COFINS> group
CofinsNode(p) ==
    LET m == p.cofins_modalidade
        cst == <<Leaf("CST", m)>>
    IN Node("COFINS",
         <<CASE m \in cofinsnt -> Node("COFINSNT", cst)
             [] m \in {"01", "02"} ->
                  Node("COFINSAliq",
                       cst \o <<Leaf("vBC", Fmt2(OrZero(p.cofins_valor_base_calculo))),
                                Leaf("pCOFINS", Fmt2(OrZero(p.cofins_aliquota_percentual))),
                                Leaf("vCOFINS", Fmt2(p.cofins_valor))>>)
             [] m = "03" ->
                  Node("COFINSQtde",
                       cst \o <<Leaf("qBCProd", Fmt4(p.quantidade_comercial)),
                                Leaf("vAliqProd", Fmt4(p.cofins_aliquota_percentual)),
                                Leaf("vCOFINS", Fmt2(p.cofins_valor))>>)
             [] OTHER ->
                  Node("COFINSOutr",
                       cst
                       \o (IF Truthy(p.cofins_aliquota_percentual)
                           THEN <<Leaf("vBC", Fmt2(OrZero(p.cofins_valor_base_calculo))),
                                  Leaf("pCOFINS", Fmt2(OrZero(p.cofins_aliquota_percentual)))>>
                           ELSE <<Leaf("qBCProd", Fmt2(p.quantidade_comercial)),
                                  Leaf("vAliqProd", Fmt2(p.cofins_aliquota_percentual))>>)
                       \o <<Leaf("vCOFINS", Fmt2(OrZero(p.cofins_valor)))>>)>>)

\* lines 603-615: icms_ufdest is None or a dict; the two FCP keys are optional
IcmsUfDestKids(p) ==
    Opt(p.icms_ufdest # None,
        LET d == p.icms_ufdest[1]
        IN <<Node("ICMSUFDest",
                  <<Leaf("vBCUFDest", Fmt2(OrZero(d.bc_uf_dest)))>>
                  \o Opt(d.tem_fcp, <<Leaf("vBCFCPUFDest", Fmt2(OrZero(d.bc_fcp_uf_dest)))>>)
                  \o <<Leaf("pFCPUFDest", Fmt4(OrZero(d.fcp_percentual_uf_dest))),
                       Leaf("pICMSUFDest", Fmt4(OrZero(d.icms_percentual_uf_dest))),
                       Leaf("pICMSInter", Fmt2(OrZero(d.icms_inter))),
                       Leaf("pICMSInterPart", Fmt4(OrZero(d.icms_inter_part)))>>
                  \o Opt(d.tem_fcp, <<Leaf("vFCPUFDest", Fmt2(OrZero(d.fcp_uf_dest)))>>)
                  \o <<Leaf("vICMSUFDest", Fmt2(OrZero(d.icms_uf_dest))),
                       Leaf("vICMSUFRemet", Fmt2(OrZero(d.icms_uf_remet)))>>)>>)

\* the children of <imposto>, lines 302-615
\* variant of ImpostoKids that emits PIS and COFINS whatever the modelo
ImpostoKids_pis_em_todo_modelo(p, c) ==
    Opt(Truthy(p.valor_tributos_aprox), <<Leaf("vTotTrib", Str(p.valor_tributos_aprox))>>)
    \o Opt(~Truthy(p.issqn_valor_base_calculo), <<Node("ICMS", <<IcmsItem(p, c)>>)>>)
    \o IssqnKids(p)
    \o IpiKids(p)
    \o <<PisNode(p), CofinsNode(p)>> \o Opt(c.modelo = 55, IcmsUfDestKids(p))

ImpostoKids(p, c) ==
    Opt(Truthy(p.valor_tributos_aprox), <<Leaf("vTotTrib", Str(p.valor_tributos_aprox))>>)
    \o Opt(~Truthy(p.issqn_valor_base_calculo), <<Node("ICMS", <<IcmsItem(p, c)>>)>>)
    \o IssqnKids(p)
    \o IpiKids(p)
    \o Opt(c.modelo = 55, <<PisNode(p), CofinsNode(p)>> \o IcmsUfDestKids(p))

\* lines 618-626
DepoisDoImposto(p) ==
    Opt(Truthy(p.ipi_valor_ipi_dev) \/ p.icms_modalidade \in {"70"},
        <<Node("impostoDevol",
               <<Leaf("pDevol", Fmt2(IF Truthy(p.pdevol) THEN p.pdevol ELSE Dec(100, 0))),
                 Node("IPI", <<Leaf("vIPIDevol", Fmt2(OrZero(p.ipi_valor_ipi_dev)))>>)>>)>>)
    \o Opt(TruthyStr(p.informacoes_adicionais),
           <<Leaf("infAdProd", TextOf(p.informacoes_adicionais))>>)

\* the children of <det>
DetKids(p, c) ==
    <<Node("prod", ProdKids(p)), Node("imposto", ImpostoKids(p, c))>> \o DepoisDoImposto(p)

\* _serializar_produto_servico(produto_servico, modelo, retorna_string=False,
\* nota_fiscal): the <det> element, or the exception that ends the call
serializar_produto_servico(p, c) ==
    IF RaisesIn(ProdKids(p)) THEN Raise("TypeError")
    ELSE IF ~Truthy(p.issqn_valor_base_calculo) /\ Icms201SemNota(p, c)
         THEN Raise("AttributeError")
    ELSE IF RaisesIn(DetKids(p, c)) THEN Raise("TypeError")
    ELSE Ok(Node("det", DetKids(p, c)))

-----------------------------------------------------------------------------
(* Texts that the code edits character by character are sequences of
   one-character strings; JoinChars gives the str they stand for. *)

Digits == {"0", "1", "2", "3", "4", "5", "6", "7", "8", "9"}

RECURSIVE JoinChars(_)
JoinChars(cs) == IF cs = <<>> THEN "" ELSE Head(cs) \o JoinChars(Tail(cs))

\* so_numeros(s) and re.sub('[^0-9]', '', s): the digits of s, in order
so_numeros(cs) == SelectSeq(cs, LAMBDA ch : ch \in Digits)

\* s[:n] of a text; every text of the model is shorter than the n the code uses
Trunc(s, n) == s

\* variant of Zfill2 that does not pad
Zfill2_sem_zeros(n) == ToString(n)

\* str(n).zfill(2) of a non-negative int
Zfill2(n) == IF n < 10 THEN "0" \o ToString(n) ELSE ToString(n)

-----------------------------------------------------------------------------
(* SerializacaoXML: the party builders *)

\* pynfe.utils.flags.CODIGOS_ESTADOS, the entries the model's documents use
CODIGOS_ESTADOS ==
    [uf \in {"PR", "SP", "BA", "AC", "SC"} |->
        CASE uf = "PR" -> "41" [] uf = "SP" -> "35" [] uf = "BA" -> "29"
          [] uf = "AC" -> "12" [] uf = "SC" -> "42"]

\* obter_codigo_por_municipio(municipio, uf): the resolver's answer for the pair
obter_codigo_por_municipio(municipio, uf) == "cMun(" \o municipio \o "/" \o uf \o ")"

\* obter_municipio_por_codigo(codigo, uf)
obter_municipio_por_codigo(codigo, uf) == "xMun(" \o codigo \o "/" \o uf \o ")"

\* obter_pais_por_codigo(codigo)
obter_pais_por_codigo(codigo) == "xPais(" \o codigo \o ")"

\* _serializar_emitente, lines 92-129
serializar_emitente(em) ==
    Node("emit",
         <<Leaf("CNPJ", JoinChars(so_numeros(em.cnpj))),
           Leaf("xNome", em.razao_social), Leaf("xFant", em.nome_fantasia),
           Node("enderEmit",
                <<Leaf("xLgr", em.endereco_logradouro), Leaf("nro", em.endereco_numero)>>
                \o Opt(TruthyStr(em.endereco_complemento),
                       <<Leaf("xCpl", TextOf(em.endereco_complemento))>>)
                \o <<Leaf("xBairro", em.endereco_bairro),
                     Leaf("cMun", obter_codigo_por_municipio(em.endereco_municipio,
                                                           em.endereco_uf)),
                     Leaf("xMun", em.endereco_municipio), Leaf("UF", em.endereco_uf),
                     Leaf("CEP", JoinChars(so_numeros(em.endereco_cep))),
                     Leaf("cPais", em.endereco_pais),
                     Leaf("xPais", obter_pais_por_codigo(em.endereco_pais))>>
                \o Opt(TruthyStr(em.endereco_telefone),
                       <<Leaf("fone", TextOf(em.endereco_telefone))>>)),
           Leaf("IE", em.inscricao_estadual)>>
         \o Opt(TruthyStr(em.inscricao_estadual_subst_tributaria),
                <<Leaf("IEST", TextOf(em.inscricao_estadual_subst_tributaria))>>)
         \o Opt(TruthyStr(em.inscricao_municipal),
                <<Leaf("IM", TextOf(em.inscricao_municipal))>>
                \o Opt(TruthyStr(em.cnae_fiscal), <<Leaf("CNAE", TextOf(em.cnae_fiscal))>>))
         \o <<Leaf("CRT", ToString(em.codigo_de_regime_tributario))>>)

\* line 158 calls cliente.inscricao_estadual.upper(): AttributeError on None, when
\* neither of the tests before it in the elif decides
ClienteIeRaises(cl) ==
    /\ cl.indicador_ie # 9
    /\ ~(cl.indicador_ie = 2 \/ cl.isento_icms)
    /\ cl.inscricao_estadual = None

\* the children of <dest>, lines 135-172 (cliente is an object)
ClienteKids(cl, so_cpf) ==
    <<Leaf(cl.tipo_documento, JoinChars(so_numeros(cl.numero_documento)))>>
    \o Opt(~so_cpf,
           Opt(TruthyStr(cl.razao_social), <<Leaf("xNome", TextOf(cl.razao_social))>>)
           \o <<Node("enderDest",
                     <<Leaf("xLgr", cl.endereco_logradouro), Leaf("nro", cl.endereco_numero)>>
                     \o Opt(TruthyStr(cl.endereco_complemento),
                            <<Leaf("xCpl", TextOf(cl.endereco_complemento))>>)
                     \o <<Leaf("xBairro", cl.endereco_bairro),
                          Leaf("cMun", obter_codigo_por_municipio(cl.endereco_municipio,
                                                                cl.endereco_uf)),
                          Leaf("xMun", cl.endereco_municipio), Leaf("UF", cl.endereco_uf),
                          Leaf("CEP", JoinChars(so_numeros(cl.endereco_cep))),
                          Leaf("cPais", cl.endereco_pais),
                          Leaf("xPais", obter_pais_por_codigo(cl.endereco_pais))>>
                     \o Opt(TruthyStr(cl.endereco_telefone),
                            <<Leaf("fone", TextOf(cl.endereco_telefone))>>))>>)
    \o (IF cl.indicador_ie = 9 THEN <<Leaf("indIEDest", "9")>>
        ELSE IF (cl.indicador_ie = 2 \/ cl.isento_icms)
                \/ TextOf(cl.inscricao_estadual) \in {"ISENTO", "isento", "Isento"}
        THEN <<Leaf("indIEDest", "2")>>
        ELSE <<Leaf("indIEDest", ToString(cl.indicador_ie)),
               Leaf("IE", TextOf(cl.inscricao_estadual))>>)
    \o Opt(TruthyStr(cl.inscricao_suframa), <<Leaf("ISUF", TextOf(cl.inscricao_suframa))>>)
    \o Opt(TruthyStr(cl.inscricao_municipal), <<Leaf("IM", TextOf(cl.inscricao_municipal))>>)
    \o Opt(TruthyStr(cl.email), <<Leaf("email", TextOf(cl.email))>>)

\* _serializar_cliente(cliente, modelo, retorna_string=False); cliente None has no
\* tipo_documento: AttributeError at line 135
serializar_cliente(cliente, so_cpf) ==
    IF cliente = None THEN Raise("AttributeError")
    ELSE IF ClienteIeRaises(cliente[1]) THEN Raise("AttributeError")
    ELSE Ok(Node("dest", ClienteKids(cliente[1], so_cpf)))

\* _serializar_autxml(notafiscal, retorna_string=False), lines 178-190: with no
\* pessoas the name raiz is unbound at the return
serializar_autxml(n) ==
    IF n.autXML = <<>> THEN Raise("UnboundLocalError")
    ELSE Ok(Node("autXML",
                 [i \in 1..Len(n.autXML) |-> Leaf(n.autXML[i].tipodoc, n.autXML[i].cpfcnpj)]))

\* _serializar_transportadora, lines 192-207
serializar_transportadora(t) ==
    Node("transporta",
         <<Leaf(t.tipo_documento, JoinChars(so_numeros(t.numero_documento))),
           Leaf("xNome", t.razao_social), Leaf("IE", t.inscricao_estadual),
           Leaf("xEnder", t.endereco_logradouro), Leaf("xMun", t.endereco_municipio),
           Leaf("UF", t.endereco_uf)>>)

\* _serializar_entrega_retirada, lines 209-229
serializar_entrega_retirada(er, tag_raiz) ==
    Node(tag_raiz,
         <<Leaf(er.tipo_documento, JoinChars(so_numeros(er.numero_documento))),
           Leaf("xLgr", er.endereco_logradouro), Leaf("nro", er.endereco_numero),
           Leaf("xCpl", er.endereco_complemento), Leaf("xBairro", er.endereco_bairro),
           Leaf("cMun", er.endereco_municipio),
           Leaf("xMun", obter_municipio_por_codigo(er.endereco_municipio, er.endereco_uf)),
           Leaf("UF", er.endereco_uf)>>)

\* _serializar_responsavel_tecnico, lines 633-643
serializar_responsavel_tecnico(r) ==
    Node("infRespTec",
         <<Leaf("CNPJ", r.cnpj), Leaf("xContato", r.contato), Leaf("email", r.email),
           Leaf("fone", r.fone)>>)

-----------------------------------------------------------------------------
(* SerializacaoXML._serializar_nota_fiscal *)

\* pynfe.utils.flags.VERSAO_PADRAO
VERSAO_PADRAO == "4.00"

nome_aplicacao == "PyNFe"

\* variant of NotaAposContingencia that never writes to the record
NotaAposContingencia_sem_escrita(e, n) == n

\* lines 698-700: in contingency the call rewrites forma_emissao '1' of the record
NotaAposContingencia(e, n) ==
    IF e.contingencia # None /\ n.forma_emissao = "1"
    THEN [n EXCEPT !.forma_emissao = "9"]
    ELSE n

\* variant of IndFinalPres without the modelo 65 branch: both fields from the input
IndFinalPres_so_entrada(n) ==
    <<Leaf("indFinal", ToString(n.cliente_final)),
      Leaf("indPres", ToString(n.indicador_presencial))>>

\* lines 705-710: indFinal and indPres
IndFinalPres(n) ==
    IF n.modelo = 65
    THEN <<Leaf("indFinal", ToString(1)), Leaf("indPres", ToString(1))>>
    ELSE <<Leaf("indFinal", ToString(n.cliente_final)),
           Leaf("indPres", ToString(n.indicador_presencial))>>

\* the children of <ide>, lines 660-726; n is the record after line 700
IdeKids(e, n) ==
    <<Leaf("cUF", CODIGOS_ESTADOS[n.uf]), Leaf("cNF", n.codigo_numerico_aleatorio),
      Leaf("natOp", n.natureza_operacao), Leaf("mod", ToString(n.modelo)),
      Leaf("serie", n.serie), Leaf("nNF", ToString(n.numero_nf)),
      Leaf("dhEmi", n.data_emissao \o e.tz)>>
    \o Opt(n.modelo = 55 /\ n.data_saida_entrada # None,
           <<Leaf("dhSaiEnt", TextOf(n.data_saida_entrada) \o e.tz)>>)
    \o <<Leaf("tpNF", ToString(n.tipo_documento)),
         Leaf("idDest", IF n.modelo = 65 THEN ToString(1) ELSE ToString(n.indicador_destino)),
         Leaf("cMunFG", n.municipio), Leaf("tpImp", ToString(n.tipo_impressao_danfe)),
         Leaf("tpEmis", n.forma_emissao), Leaf("cDV", n.dv_codigo_numerico_aleatorio),
         Leaf("tpAmb", ToString(e.ambiente)), Leaf("finNFe", n.finalidade_emissao)>>
    \o IndFinalPres(n)
    \o <<Leaf("procEmi", ToString(n.processo_emissao)),
         Leaf("verProc", nome_aplicacao \o " " \o n.versao_processo_emissao)>>
    \o Opt(n.modelo = 55,
           [i \in 1..Len(n.notas_fiscais_referenciadas) |->
               Node("NFref", <<Leaf("refNFe", n.notas_fiscais_referenciadas[i])>>)])
    \o Opt(e.contingencia # None, <<Leaf("dhCont", n.data_emissao \o e.tz)>>)

\* line 726 reads nota_fiscal.self, an attribute a NotaFiscal does not have
IdeRaises(e, n) == e.contingencia # None

\* the children of <ICMSTot>, lines 774-803
IcmsTotKids(n) ==
    <<Leaf("vBC", Fmt2(n.totais_icms_base_calculo)),
      Leaf("vICMS", Fmt2(n.totais_icms_total)),
      Leaf("vICMSDeson", Fmt2(n.totais_icms_desonerado))>>
    \o Opt(Truthy(n.totais_fcp_destino), <<Leaf("vFCPUFDest", Fmt2(n.totais_fcp_destino))>>)
    \o Opt(Truthy(n.totais_icms_inter_destino),
           <<Leaf("vICMSUFDest", Fmt2(n.totais_icms_inter_destino))>>)
    \o Opt(Truthy(n.totais_icms_inter_remetente),
           <<Leaf("vICMSUFRemet", Fmt2(n.totais_icms_remetente))>>)
    \o <<Leaf("vFCP", Fmt2(n.totais_fcp)), Leaf("vBCST", Fmt2(n.totais_icms_st_base_calculo)),
         Leaf("vST", Fmt2(n.totais_icms_st_total)), Leaf("vFCPST", Fmt2(n.totais_fcp_st)),
         Leaf("vFCPSTRet", Fmt2(n.totais_fcp_st_ret)),
         \* abs() of line 788: the model's amounts are never negative
         Leaf("vProd", Fmt2(n.totais_icms_total_produtos_e_servicos)),
         Leaf("vFrete", Fmt2(n.totais_icms_total_frete)),
         Leaf("vSeg", Fmt2(n.totais_icms_total_seguro)),
         Leaf("vDesc", Fmt2(n.totais_icms_total_desconto)),
         Leaf("vII", Fmt2(n.totais_icms_total_ii)), Leaf("vIPI", Fmt2(n.totais_icms_total_ipi)),
         Leaf("vIPIDevol", Fmt2(n.totais_icms_total_ipi_dev)),
         Leaf("vPIS", Fmt2(n.totais_icms_pis)), Leaf("vCOFINS", Fmt2(n.totais_icms_cofins)),
         Leaf("vOutro", Fmt2(n.totais_icms_outras_despesas_acessorias)),
         Leaf("vNF", Fmt2(n.totais_icms_total_nota))>>
    \o Opt(Truthy(n.totais_tributos_aproximado),
           <<Leaf("vTotTrib", Fmt2(n.totais_tributos_aproximado))>>)

\* the <ISSQNtot> group, lines 806-828; the try block of 821-828 swallows the
\* AttributeError of a record without issqn_vissret or issqn_cregtrib
IssqnTotKids(e, n) ==
    Opt(Truthy(n.totais_issqn_base_calculo_iss),
        <<Node("ISSQNtot",
               <<Leaf("vServ", Fmt2(n.totais_issqn_base_calculo_iss)),
                 Leaf("vBC", Fmt2(n.totais_issqn_base_calculo_iss))>>
               \o Opt(Truthy(n.totais_issqn_total_iss),
                      <<Leaf("vISS", Fmt2(n.totais_issqn_total_iss))>>)
               \o Opt(Truthy(n.totais_issqn_pis), <<Leaf("vPIS", Fmt2(n.totais_issqn_pis))>>)
               \o Opt(Truthy(n.totais_issqn_cofins),
                      <<Leaf("vCOFINS", Fmt2(n.totais_issqn_cofins))>>)
               \o <<Leaf("dCompet", IF n.data_competencia_servico # None
                                    THEN TextOf(n.data_competencia_servico) ELSE e.hoje)>>
               \o Opt(n.issqn_vissret # Absent /\ Truthy(n.issqn_vissret),
                      <<Leaf("vISSRet", Fmt2(n.issqn_vissret))>>)
               \o Opt(n.issqn_vissret # Absent /\ n.issqn_cregtrib # Absent
                      /\ Truthy(n.issqn_cregtrib),
                      <<Leaf("cRegTrib", Str(n.issqn_cregtrib))>>))>>)

\* one <vol>, lines 864-879
VolNode(v) ==
    Node("vol",
         Opt(Truthy(v.quantidade),
             <<Leaf("qVol", Str(v.quantidade)), Leaf("esp", v.especie)>>
             \o Opt(TruthyStr(v.marca), <<Leaf("marca", TextOf(v.marca))>>)
             \o Opt(TruthyStr(v.numeracao), <<Leaf("nVol", TextOf(v.numeracao))>>)
             \o <<Leaf("pesoL", Str(v.peso_liquido)), Leaf("pesoB", Str(v.peso_bruto))>>
             \o Opt(v.lacres # <<>>,
                    <<Node("lacres",
                           [i \in 1..Len(v.lacres) |-> Leaf("nLacre", v.lacres[i])])>>)))

\* the children of <transp>, lines 832-879
TranspKids(n) ==
    <<Leaf("modFrete", ToString(n.transporte_modalidade_frete))>>
    \o Opt(n.modelo = 55,
           Opt(n.transporte_transportadora # None,
               <<serializar_transportadora(n.transporte_transportadora[1])>>)
           \o Opt(TruthyStr(n.transporte_veiculo_placa) /\ TruthyStr(n.transporte_veiculo_uf),
                  <<Node("veicTransp",
                         <<Leaf("placa", TextOf(n.transporte_veiculo_placa)),
                           Leaf("UF", TextOf(n.transporte_veiculo_uf))>>
                         \o Opt(TruthyStr(n.transporte_veiculo_rntc),
                                <<Leaf("RNTC", TextOf(n.transporte_veiculo_rntc))>>))>>)
           \o Opt(TruthyStr(n.transporte_reboque_placa) /\ TruthyStr(n.transporte_reboque_uf),
                  <<Node("reboque",
                         <<Leaf("placa", TextOf(n.transporte_reboque_placa)),
                           Leaf("UF", TextOf(n.transporte_reboque_uf))>>
                         \o Opt(TruthyStr(n.transporte_reboque_rntc),
                                <<Leaf("RNTC", TextOf(n.transporte_reboque_rntc))>>))>>)
           \o [i \in 1..Len(n.transporte_volumes) |-> VolNode(n.transporte_volumes[i])])

\* the optional <cobr>, lines 882-895
CobrKids(n) ==
    Opt(TruthyStr(n.fatura_numero) /\ Truthy(n.fatura_valor_original),
        <<Node("cobr",
               <<Node("fat",
                      <<Leaf("nFat", TextOf(n.fatura_numero)),
                        Leaf("vOrig", Fmt2(n.fatura_valor_original)),
                        Leaf("vDesc", Fmt2(n.fatura_valor_desconto)),
                        Leaf("vLiq", Fmt2(n.fatura_valor_liquido))>>)>>
               \o [i \in 1..Len(n.duplicatas) |->
                      Node("dup",
                           <<Leaf("nDup", n.duplicatas[i].numero),
                             Leaf("dVenc", n.duplicatas[i].data_vencimento),
                             Leaf("vDup", Fmt2(n.duplicatas[i].valor))>>)])>>)

\* lines 909-914 and 920-925: xPag of payment method 99
XPagKids(n) ==
    Opt(ToString(n.tipo_pagamento) = "99",
        <<Leaf("xPag", IF TruthyStr(n.descricao_pagamento)
                       THEN Trunc(TextOf(n.descricao_pagamento), 60)
                       ELSE "Sem Informacao")>>)

\* the <card> group, lines 938-952; a record without cartao_tipo_integracao raises
\* AttributeError, which the try block of 932-954 swallows
CardKids(n) ==
    Opt(n.cartao_tipo_integracao # Absent /\ Truthy(n.cartao_tipo_integracao),
        <<Node("card",
               <<Leaf("tpIntegra", Str(n.cartao_tipo_integracao)),
                 Leaf("CNPJ", JoinChars(so_numeros(IF n.cartao_cnpj = None THEN <<>>
                                                   ELSE n.cartao_cnpj[1]))),
                 Leaf("tBand", TextOf(n.cartao_tipo_bandeira)),
                 Leaf("cAut", Trunc(TextOf(n.cartao_numero_autorizacao), 20))>>
               \o Opt(n.cartao_cnpj_receb # None /\ n.cartao_cnpj_receb[1] # <<>>,
                      <<Leaf("CNPJReceb", JoinChars(so_numeros(n.cartao_cnpj_receb[1])))>>)
               \o Opt(TruthyStr(n.cartao_terminal_pgto),
                      <<Leaf("idTermPag", Trunc(TextOf(n.cartao_terminal_pgto), 40))>>)
               \o Opt(Truthy(n.cartao_valor_troco) /\ n.cartao_valor_troco[1] > 0,
                      <<Leaf("vTroco", Fmt2(OrZero(n.cartao_valor_troco)))>>))>>)

\* variant of AjusteOuDevolucao that tests purpose 3 only
AjusteOuDevolucao_so_ajuste(n) == n.finalidade_emissao = "3"

\* is the purpose adjustment or return? (line 906)
AjusteOuDevolucao(n) == n.finalidade_emissao = "3" \/ n.finalidade_emissao = "4"

\* the children of <detPag>, lines 903-954
DetPagKids(n) ==
    Opt(Truthy(n.indicacao_pagamento), <<Leaf("indPag", Str(n.indicacao_pagamento))>>)
    \o (IF AjusteOuDevolucao(n)
        THEN <<Leaf("tPag", "90")>> \o XPagKids(n) \o <<Leaf("vPag", Fmt2(Int0))>>
        ELSE <<Leaf("tPag", Zfill2(n.tipo_pagamento))>>
             \o XPagKids(n)
             \o <<Leaf("vPag", IF Zfill2(n.tipo_pagamento) = "90" THEN Fmt2(Int0)
                               ELSE Fmt2(n.totais_icms_total_nota))>>
             \o CardKids(n))

\* the optional <infIntermed>, lines 960-967
IntermedKids(n) ==
    Opt(n.intermed_cnpj # Absent /\ TruthyStr(n.intermed_cnpj) /\ n.modelo = 55,
        <<Node("infIntermed",
               <<Leaf("CNPJ", Trunc(TextOf(n.intermed_cnpj), 14)),
                 Leaf("idCadIntTran", Trunc(TextOf(n.intermed_idcadinttran), 60))>>)>>)

\* the optional <infAdic>, lines 970-975
InfAdicKids(n) ==
    Opt(TruthyStr(n.informacoes_adicionais_interesse_fisco)
        \/ TruthyStr(n.informacoes_complementares_interesse_contribuinte),
        <<Node("infAdic",
               Opt(TruthyStr(n.informacoes_adicionais_interesse_fisco),
                   <<Leaf("infAdFisco", TextOf(n.informacoes_adicionais_interesse_fisco))>>)
               \o Opt(TruthyStr(n.informacoes_complementares_interesse_contribuinte),
                      <<Leaf("infCpl",
                             TextOf(n.informacoes_complementares_interesse_contribuinte))>>))>>)

\* the nota_fiscal the item builder reads: cliente_final and the emitter's CRT
ItemCtx(n) ==
    [modelo |-> n.modelo,
     nota |-> <<[cliente_final |-> n.cliente_final,
                 crt |-> n.emitente.codigo_de_regime_tributario]>>]

\* lines 765-769: one <det nItem="i"> per item, in order
DetNodes(n) ==
    [i \in 1..Len(n.produtos_e_servicos) |->
        Element("det", <<<<"nItem", ToString(i)>>>>, "",
                DetKids(n.produtos_e_servicos[i], ItemCtx(n)))]

\* the outcome of the item calls of the loop: the first exception, if any
ItensRaise(n) ==
    LET r == [i \in 1..Len(n.produtos_e_servicos) |->
                 serializar_produto_servico(n.produtos_e_servicos[i], ItemCtx(n))]
        bad == {i \in 1..Len(r) : r[i].st = "raise"}
    IN IF bad = {} THEN None
       ELSE <<r[CHOOSE i \in bad : \A j \in bad : i <= j].err>>

\* lines 731-739: the recipient; AttributeError is dropped for modelo 65
DestKids(e, n) ==
    LET r == serializar_cliente(n.cliente, e.so_cpf)
    IN Opt(r.st = "ok", <<r.val>>)

\* variant of DestRaises that re-raises for every modelo
DestRaises_todo_modelo(e, n) == serializar_cliente(n.cliente, e.so_cpf).st = "raise"

\* lines 735-737: the AttributeError of the recipient builder is re-raised unless modelo is 65
DestRaises(e, n) == serializar_cliente(n.cliente, e.so_cpf).st = "raise" /\ n.modelo # 65

\* lines 742-746: the authorized-viewer list; any exception is dropped
AutXmlKids(n) ==
    LET r == serializar_autxml(n)
    IN Opt(n.modelo = 55 /\ r.st = "ok", <<r.val>>)

\* variant of InfNFeKids that appends <pag> before <cobr>
InfNFeKids_pag_antes_cobr(e, n) ==
    <<Node("ide", IdeKids(e, n)), serializar_emitente(n.emitente)>>
    \o DestKids(e, n)
    \o AutXmlKids(n)
    \o Opt(n.retirada # None, <<serializar_entrega_retirada(n.retirada[1], "retirada")>>)
    \o Opt(n.entrega # None, <<serializar_entrega_retirada(n.entrega[1], "entrega")>>)
    \o DetNodes(n)
    \o <<Node("total", <<Node("ICMSTot", IcmsTotKids(n))>> \o IssqnTotKids(e, n)),
         Node("transp", TranspKids(n))>>
    \o <<Node("pag", <<Node("detPag", DetPagKids(n))>>)>>
    \o CobrKids(n)
    \o IntermedKids(n)
    \o InfAdicKids(n)
    \o Opt(n.responsavel_tecnico # <<>>,
           <<serializar_responsavel_tecnico(n.responsavel_tecnico[1])>>)

\* the children of <infNFe> in the order the code appends them
InfNFeKids(e, n) ==
    <<Node("ide", IdeKids(e, n)), serializar_emitente(n.emitente)>>
    \o DestKids(e, n)
    \o AutXmlKids(n)
    \o Opt(n.retirada # None, <<serializar_entrega_retirada(n.retirada[1], "retirada")>>)
    \o Opt(n.entrega # None, <<serializar_entrega_retirada(n.entrega[1], "entrega")>>)
    \o DetNodes(n)
    \o <<Node("total", <<Node("ICMSTot", IcmsTotKids(n))>> \o IssqnTotKids(e, n)),
         Node("transp", TranspKids(n))>>
    \o CobrKids(n)
    \o <<Node("pag", <<Node("detPag", DetPagKids(n))>>)>>
    \o IntermedKids(n)
    \o InfAdicKids(n)
    \o Opt(n.responsavel_tecnico # <<>>,
           <<serializar_responsavel_tecnico(n.responsavel_tecnico[1])>>)

\* _serializar_nota_fiscal(nota_fiscal, retorna_string=False) of an engine with the
\* fields e: the <infNFe> element, or the exception that ends the call
serializar_nota_fiscal(e, n0) ==
    LET n == NotaAposContingencia(e, n0)
    IN IF IdeRaises(e, n) THEN Raise("AttributeError")
       ELSE IF DestRaises(e, n) THEN Raise("AttributeError")
       ELSE IF ItensRaise(n) # None THEN Raise(ItensRaise(n)[1])
       ELSE IF RaisesIn(InfNFeKids(e, n)) THEN Raise("TypeError")
       ELSE Ok(Element("infNFe",
                       <<<<"versao", VERSAO_PADRAO>>, <<"Id", n.identificador_unico>>>>,
                       "", InfNFeKids(e, n)))

-----------------------------------------------------------------------------
(* The inputs the specifications draw from *)

\* variables a specification does not use keep this value
Unused == <<>>

S(x) == <<x>>

\* the longest list of line items of a document
MaxItens == 2

ProdutoBase ==
    [codigo |-> "001", ean |-> "SEM GTIN", descricao |-> "Produto", ncm |-> "22021000",
     cest |-> None, cbenef |-> None, cfop |-> "5102", unidade_comercial |-> "UN",
     quantidade_comercial |-> Dec(20000, 4), valor_unitario_comercial |-> Dec(5000, 2),
     valor_total_bruto |-> Dec(10000, 2), ean_tributavel |-> "SEM GTIN",
     unidade_tributavel |-> "UN", quantidade_tributavel |-> Dec(20000, 4),
     valor_unitario_tributavel |-> Dec(5000, 2), total_frete |-> None, desconto |-> None,
     outras_despesas_acessorias |-> None, ind_total |-> Dec(1, 0),
     xped |-> None, nitemped |-> None, numero_pedido |-> None, numero_item |-> None,
     nfci |-> None, valor_tributos_aprox |-> None,
     issqn_valor_base_calculo |-> None, issqn_aliquota |-> Dec(500, 2),
     issqn_valor |-> Dec(500, 2), issqn_municipio |-> "4106902",
     issqn_lista_servico |-> "01.07", issqn_indiss |-> "1", issqn_indincentivo |-> "2",
     icms_modalidade |-> "00", icms_origem |-> Dec(0, 0), icms_csosn |-> S("102"),
     icms_aliquota |-> Dec(1800, 2), icms_credito |-> None,
     icms_modalidade_determinacao_bc |-> Dec(3, 0),
     icms_valor_base_calculo |-> Dec(10000, 2), icms_valor |-> Dec(1800, 2),
     icms_percentual_reducao_bc |-> None,
     icms_st_modalidade_determinacao_bc |-> None, icms_st_percentual_adicional |-> None,
     icms_st_percentual_reducao_bc |-> None, icms_st_valor_base_calculo |-> None,
     icms_st_aliquota |-> None, icms_st_valor |-> None, icms_st_substituto |-> None,
     icms_st_retido |-> FALSE,
     fcp_valor |-> None, fcp_base_calculo |-> None, fcp_percentual |-> None,
     ipi_codigo_enquadramento |-> None, ipi_situacao_tributaria |-> None,
     ipi_valor_base_calculo |-> None, ipi_aliquota |-> None, ipi_valor_ipi |-> None,
     ipi_valor_ipi_dev |-> None, pdevol |-> None,
     pis_modalidade |-> "01", pis_valor_base_calculo |-> Dec(10000, 2),
     pis_aliquota_percentual |-> Dec(165, 2), pis_valor |-> Dec(165, 2),
     cofins_modalidade |-> "01", cofins_valor_base_calculo |-> Dec(10000, 2),
     cofins_aliquota_percentual |-> Dec(760, 2), cofins_valor |-> Dec(760, 2),
     icms_ufdest |-> None, informacoes_adicionais |-> None]

\* the ICMS codes the branches of _serializar_produto_servico name
CodigosIcms ==
    {"00", "10", "20", "30", "40", "41", "50", "51", "60", "70", "90",
     "101", "102", "103", "300", "400", "201", "500", "900", "ST"}

\* codes that no branch names
CodigosIcmsDesconhecidos == {"61", "99"}

\* modelo and nota_fiscal arguments of a direct call of the item builder
Contextos ==
    [modelo : {55, 65},
     nota : {None} \cup {S(x) : x \in [cliente_final : {0, 1}, crt : {1, 3}]}]

\* items that differ in the ICMS group
ProdutosIcms ==
    {[ProdutoBase EXCEPT !.icms_modalidade = m, !.issqn_valor_base_calculo = iss,
                         !.icms_st_retido = retido,
                         !.icms_st_valor_base_calculo = st[1], !.icms_st_aliquota = st[2],
                         !.icms_st_valor = st[3], !.icms_st_substituto = st[4],
                         !.fcp_valor = fcp, !.cest = S("0100100")] :
        m \in CodigosIcms \cup CodigosIcmsDesconhecidos,
        iss \in {None, Dec(10000, 2)},
        retido \in BOOLEAN,
        st \in {<<None, None, None, None>>,
                <<Dec(20000, 2), Dec(1200, 2), Dec(2400, 2), Dec(1234, 3)>>},
        fcp \in {None, Dec(200, 2)}}

\* items that differ in the PIS and COFINS groups
ProdutosPisCofins ==
    {[ProdutoBase EXCEPT !.pis_modalidade = pm, !.cofins_modalidade = cm,
                         !.pis_aliquota_percentual = pa, !.cofins_aliquota_percentual = ca,
                         !.cofins_valor = cv, !.issqn_valor_base_calculo = iss] :
        pm \in {"01", "03", "04", "49", "99"}, cm \in {"02", "03", "09", "49", "99"},
        pa \in {None, Dec(0, 2), Dec(165, 2)}, ca \in {None, Dec(0, 2), Dec(76543, 4)},
        cv \in {None, Dec(760, 2)}, iss \in {None, Dec(10000, 2)}}

\* items that differ in the IPI group and the order fields
ProdutosIpi ==
    {[ProdutoBase EXCEPT !.ipi_codigo_enquadramento = enq, !.ipi_situacao_tributaria = sit,
                         !.icms_modalidade = m, !.issqn_valor_base_calculo = iss,
                         !.xped = xp, !.nitemped = ni, !.numero_pedido = np] :
        enq \in {None, S("999")}, sit \in {None, S("00"), S("53"), S("99")},
        m \in {"00", "41"}, iss \in {None, Dec(10000, 2)},
        xp \in {None, S("PED-1"), Absent}, ni \in {None, S("7"), Absent},
        np \in {None, S("PED-2")}}

\* items of code 00 whose base, rate and value have zero, two or three decimal
\* places, with and without substitution-tax values
ProdutosIcms00 ==
    {[ProdutoBase EXCEPT !.icms_valor_base_calculo = b, !.icms_aliquota = a,
                         !.icms_valor = v,
                         !.icms_st_modalidade_determinacao_bc = st[1],
                         !.icms_st_valor_base_calculo = st[2],
                         !.icms_st_aliquota = st[3], !.icms_st_valor = st[4]] :
        b \in {None, Dec(100, 0), Dec(10000, 2), Dec(100005, 3)},
        a \in {None, Dec(18, 0), Dec(1800, 2), Dec(17555, 3)},
        v \in {None, Dec(0, 2), Dec(18, 0), Dec(18005, 3)},
        st \in {<<None, None, None, None>>,
                <<Dec(4, 0), Dec(20000, 2), Dec(1200, 2), Dec(2400, 2)>>}}

\* items whose PIS and COFINS groups are given the same code, base, rate and value
ProdutosPisCofinsIguais ==
    {[ProdutoBase EXCEPT !.pis_modalidade = m, !.cofins_modalidade = m,
                         !.pis_aliquota_percentual = a, !.cofins_aliquota_percentual = a,
                         !.pis_valor_base_calculo = Dec(10000, 2),
                         !.cofins_valor_base_calculo = Dec(10000, 2),
                         !.pis_valor = Dec(165, 2), !.cofins_valor = Dec(165, 2),
                         !.quantidade_comercial = q] :
        m \in {"01", "03", "04", "49", "99"},
        a \in {None, Dec(0, 2), Dec(165, 2), Dec(76543, 4)},
        q \in {Dec(20000, 4), Dec(12345, 4)}}

Produtos ==
    ProdutosIcms \cup ProdutosPisCofins \cup ProdutosIpi \cup ProdutosIcms00
    \cup ProdutosPisCofinsIguais

ContextosDe(p) ==
    IF p \in ProdutosIcms THEN Contextos
    ELSE {c \in Contextos : c.nota # None /\ c.nota[1] = [cliente_final |-> 1, crt |-> 3]}

-----------------------------------------------------------------------------
(* SpecItem: one call of _serializar_produto_servico *)

InitItem ==
    /\ prod \in Produtos
    /\ ctx \in ContextosDe(prod)
    /\ ret = NotCalled
    /\ nf = Unused /\ eng = Unused /\ evento = Unused /\ qr = Unused
    /\ fonte = Unused /\ hist = Unused /\ pc = Unused /\ inicial = Unused

SerializarProdutoServico ==
    /\ prod # Unused
    /\ ret.st = "none"
    /\ ret' = serializar_produto_servico(prod, ctx)
    /\ UNCHANGED <<prod, ctx, nf, eng, evento, qr, fonte, hist, pc, inicial>>

NextItem == SerializarProdutoServico

SpecItem == InitItem /\ [][NextItem]_vars

-----------------------------------------------------------------------------
(* SpecNF: one call of _serializar_nota_fiscal *)

EmitenteBase ==
    [cnpj |-> <<"1", "2", ".", "3", "/", "4">>, razao_social |-> "Emitente SA",
     nome_fantasia |-> "Emitente", endereco_logradouro |-> "Rua A", endereco_numero |-> "10",
     endereco_complemento |-> None, endereco_bairro |-> "Centro",
     endereco_municipio |-> "Curitiba", endereco_uf |-> "PR",
     endereco_cep |-> <<"8", "0", "-", "1">>, endereco_pais |-> "1058",
     endereco_telefone |-> None, inscricao_estadual |-> "9012345678",
     inscricao_estadual_subst_tributaria |-> None, inscricao_municipal |-> None,
     cnae_fiscal |-> None, codigo_de_regime_tributario |-> 3]

ClienteBase ==
    [tipo_documento |-> "CNPJ", numero_documento |-> <<"9", "8", ".", "7">>,
     razao_social |-> S("Cliente Ltda"), endereco_logradouro |-> "Rua B",
     endereco_numero |-> "20", endereco_complemento |-> None, endereco_bairro |-> "Bairro",
     endereco_municipio |-> "Curitiba", endereco_uf |-> "PR",
     endereco_cep |-> <<"8", "1">>, endereco_pais |-> "1058", endereco_telefone |-> None,
     indicador_ie |-> 1, isento_icms |-> FALSE, inscricao_estadual |-> S("555"),
     inscricao_suframa |-> None, inscricao_municipal |-> None, email |-> None]

\* a recipient whose inscricao_estadual is None: line 158 raises AttributeError
ClienteSemIE == [ClienteBase EXCEPT !.inscricao_estadual = None]

EnderecoEntrega ==
    [tipo_documento |-> "CNPJ", numero_documento |-> <<"5", "5">>,
     endereco_logradouro |-> "Rua C", endereco_numero |-> "30", endereco_complemento |-> "",
     endereco_bairro |-> "Bairro", endereco_municipio |-> "4106902", endereco_uf |-> "PR"]

RespTecBase ==
    [cnpj |-> "11222333000144", contato |-> "Contato", email |-> "a@b.c", fone |-> "4133"]

CartaoTef ==
    [tipo_integracao |-> Dec(1, 0), cnpj |-> S(<<"1", "1", ".", "2">>),
     tipo_bandeira |-> S("01"), numero_autorizacao |-> S("AUT1"),
     cnpj_receb |-> S(<<"3", "3">>), terminal_pgto |-> S("T1"), valor_troco |-> Dec(250, 2)]

\* a card payment of which only the integration type is supplied
CartaoSoTipo ==
    [tipo_integracao |-> Dec(2, 0), cnpj |-> None, tipo_bandeira |-> None,
     numero_autorizacao |-> None, cnpj_receb |-> None, terminal_pgto |-> None,
     valor_troco |-> Dec(0, 2)]

\* a card payment with a negative change amount
CartaoTrocoNegativo ==
    [tipo_integracao |-> Dec(1, 0), cnpj |-> S(<<"1", "1", ".", "2">>),
     tipo_bandeira |-> S("01"), numero_autorizacao |-> S("AUT1"),
     cnpj_receb |-> None, terminal_pgto |-> None, valor_troco |-> Dec(-250, 2)]

SemCartao ==
    [tipo_integracao |-> None, cnpj |-> None, tipo_bandeira |-> None,
     numero_autorizacao |-> None, cnpj_receb |-> None, terminal_pgto |-> None,
     valor_troco |-> None]

\* a record that has none of the cartao_ attributes
CartaoAusente == [SemCartao EXCEPT !.tipo_integracao = Absent]

NotaBase ==
    [identificador_unico |-> "NFe4123", uf |-> "PR", codigo_numerico_aleatorio |-> "66998237",
     natureza_operacao |-> "VENDA", modelo |-> 55, serie |-> "1", numero_nf |-> 111,
     data_emissao |-> "2024-01-15T10:00:00", data_saida_entrada |-> None,
     tipo_documento |-> 1, indicador_destino |-> 1, municipio |-> "4106902",
     tipo_impressao_danfe |-> 1, forma_emissao |-> "1",
     dv_codigo_numerico_aleatorio |-> "3", finalidade_emissao |-> "1",
     cliente_final |-> 1, indicador_presencial |-> 1, processo_emissao |-> 0,
     versao_processo_emissao |-> "1.0", notas_fiscais_referenciadas |-> <<>>,
     emitente |-> EmitenteBase, cliente |-> S(ClienteBase), autXML |-> <<>>,
     retirada |-> None, entrega |-> None, produtos_e_servicos |-> <<ProdutoBase>>,
     totais_icms_base_calculo |-> Dec(10000, 2), totais_icms_total |-> Dec(1800, 2),
     totais_icms_desonerado |-> Dec(0, 2), totais_fcp_destino |-> None,
     totais_icms_inter_destino |-> None, totais_icms_inter_remetente |-> None,
     totais_icms_remetente |-> None, totais_fcp |-> Dec(0, 2),
     totais_icms_st_base_calculo |-> Dec(0, 2), totais_icms_st_total |-> Dec(0, 2),
     totais_fcp_st |-> Dec(0, 2), totais_fcp_st_ret |-> Dec(0, 2),
     totais_icms_total_produtos_e_servicos |-> Dec(10000, 2),
     totais_icms_total_frete |-> Dec(0, 2), totais_icms_total_seguro |-> Dec(0, 2),
     totais_icms_total_desconto |-> Dec(0, 2), totais_icms_total_ii |-> Dec(0, 2),
     totais_icms_total_ipi |-> Dec(0, 2), totais_icms_total_ipi_dev |-> Dec(0, 2),
     totais_icms_pis |-> Dec(165, 2), totais_icms_cofins |-> Dec(760, 2),
     totais_icms_outras_despesas_acessorias |-> Dec(0, 2),
     totais_icms_total_nota |-> Dec(10000, 2), totais_tributos_aproximado |-> None,
     totais_issqn_base_calculo_iss |-> None, totais_issqn_total_iss |-> None,
     totais_issqn_pis |-> None, totais_issqn_cofins |-> None,
     data_competencia_servico |-> None, issqn_vissret |-> None, issqn_cregtrib |-> None,
     transporte_modalidade_frete |-> 9, transporte_transportadora |-> None,
     transporte_veiculo_placa |-> None, transporte_veiculo_uf |-> None,
     transporte_veiculo_rntc |-> None, transporte_reboque_placa |-> None,
     transporte_reboque_uf |-> None, transporte_reboque_rntc |-> None,
     transporte_volumes |-> <<>>,
     fatura_numero |-> None, fatura_valor_original |-> None,
     fatura_valor_desconto |-> Dec(0, 2), fatura_valor_liquido |-> Dec(10000, 2),
     duplicatas |-> <<>>,
     indicacao_pagamento |-> None, tipo_pagamento |-> 1, descricao_pagamento |-> None,
     cartao_tipo_integracao |-> None, cartao_cnpj |-> None, cartao_tipo_bandeira |-> None,
     cartao_numero_autorizacao |-> None, cartao_cnpj_receb |-> None,
     cartao_terminal_pgto |-> None, cartao_valor_troco |-> None,
     intermed_cnpj |-> None, intermed_idcadinttran |-> None,
     informacoes_adicionais_interesse_fisco |-> None,
     informacoes_complementares_interesse_contribuinte |-> None,
     responsavel_tecnico |-> <<>>]

\* Serializacao.__init__(fonte_dados, homologacao, contingencia, so_cpf), lines 36-40,
\* with the local timezone offset and date the call reads from the clock
Engine(homologacao, contingencia, so_cpf, tz) ==
    [ambiente |-> IF homologacao THEN 2 ELSE 1, contingencia |-> contingencia,
     so_cpf |-> so_cpf, tz |-> tz, hoje |-> "2024-01-16"]

EngineBase == Engine(FALSE, None, FALSE, "-03:00")

\* an item with tax code 00, a service item, and an item whose code no branch names
ItemBom == ProdutoBase

ItemServico == [ProdutoBase EXCEPT !.issqn_valor_base_calculo = Dec(10000, 2)]

ItemDesconhecido == [ProdutoBase EXCEPT !.icms_modalidade = "99"]

\* CSOSN 500 without the substitution values: line 383 formats None
ItemQueLevanta == [ProdutoBase EXCEPT !.icms_modalidade = "500", !.icms_st_retido = TRUE]

SeqsAte(Set, n) == UNION {[1..k -> Set] : k \in 0..n}

\* documents that differ in which optional sections they have
NotasSecoes ==
    {[NotaBase EXCEPT !.modelo = mo, !.cliente = cl, !.autXML = au, !.retirada = re,
                      !.entrega = en, !.produtos_e_servicos = it,
                      !.fatura_numero = fa[1], !.fatura_valor_original = fa[2],
                      !.duplicatas = fa[3],
                      !.intermed_cnpj = im, !.intermed_idcadinttran = im,
                      !.informacoes_complementares_interesse_contribuinte = ia,
                      !.responsavel_tecnico = rt] :
        mo \in {55, 65}, cl \in {None, S(ClienteBase)},
        au \in {<<>>, <<[tipodoc |-> "CPF", cpfcnpj |-> "12345678901"]>>},
        re \in {None, S(EnderecoEntrega)}, en \in {None, S(EnderecoEntrega)},
        it \in SeqsAte({ItemBom, ItemDesconhecido}, MaxItens),
        fa \in {<<None, None, <<>>>>,
                <<S("F1"), Dec(10000, 2),
                  <<[numero |-> "1", data_vencimento |-> "2024-02-15", valor |-> Dec(10000, 2)]>>>>},
        im \in {None, S("99888777000166")}, ia \in {None, S("obs")},
        rt \in {<<>>, <<RespTecBase>>}}

\* documents that differ in their line items
NotasItens ==
    {[NotaBase EXCEPT !.modelo = mo, !.cliente_final = cf, !.produtos_e_servicos = it] :
        mo \in {55, 65}, cf \in {0, 1},
        it \in SeqsAte({ItemBom, ItemServico, ItemDesconhecido, ItemQueLevanta}, MaxItens)}

\* documents that differ in the identification and payment fields
NotasPagamento ==
    {[NotaBase EXCEPT !.modelo = mo, !.finalidade_emissao = fi, !.tipo_pagamento = tp,
                      !.totais_icms_total_nota = tot, !.cliente_final = cf,
                      !.indicador_presencial = ip, !.descricao_pagamento = de,
                      !.cartao_tipo_integracao = ca.tipo_integracao,
                      !.cartao_cnpj = ca.cnpj, !.cartao_tipo_bandeira = ca.tipo_bandeira,
                      !.cartao_numero_autorizacao = ca.numero_autorizacao,
                      !.cartao_cnpj_receb = ca.cnpj_receb,
                      !.cartao_terminal_pgto = ca.terminal_pgto,
                      !.cartao_valor_troco = ca.valor_troco] :
        mo \in {55, 65}, fi \in {"1", "2", "3", "4"}, tp \in {1, 3, 90, 99},
        tot \in {Dec(0, 2), Dec(10000, 2)}, cf \in {0, 1}, ip \in {0, 1, 2},
        de \in {None, S("Vale")},
        ca \in {SemCartao, CartaoTef, CartaoSoTipo, CartaoTrocoNegativo, CartaoAusente}}

\* documents that differ in the optional aggregates of the totals section
NotasTotais ==
    {[NotaBase EXCEPT !.totais_fcp_destino = fd, !.totais_icms_inter_destino = de,
                      !.totais_icms_inter_remetente = ir, !.totais_icms_remetente = re,
                      !.totais_tributos_aproximado = ta] :
        fd \in {None, Dec(0, 2), Dec(1234, 2)}, de \in {None, Dec(0, 2), Dec(500, 2)},
        ir \in {None, Dec(0, 2), Dec(500, 2)}, re \in {None, Dec(500, 2), Dec(700, 2)},
        ta \in {None, Dec(0, 2), Dec(12345, 3)}}

\* documents and recipients for the engines with and without contingency
NotasContingencia ==
    {[NotaBase EXCEPT !.modelo = mo, !.forma_emissao = fe, !.cliente = cl] :
        mo \in {55, 65}, fe \in {"1", "5", "9"},
        cl \in {None, S(ClienteBase), S(ClienteSemIE)}}

Engines ==
    {Engine(h, c, s, tz) :
        h \in BOOLEAN, c \in {None, S("Sem conexao com a SEFAZ")}, s \in BOOLEAN,
        tz \in {"-03:00", "+01:00"}}

InitNF ==
    /\ \/ nf \in NotasSecoes \cup NotasItens \cup NotasPagamento \cup NotasTotais
          /\ eng = EngineBase
       \/ nf \in NotasContingencia /\ eng \in Engines
    /\ ret = NotCalled
    /\ prod = Unused /\ ctx = Unused /\ evento = Unused /\ qr = Unused
    /\ fonte = Unused /\ hist = Unused /\ pc = Unused /\ inicial = Unused

\* self._serializar_nota_fiscal(nf, retorna_string=False)
SerializarNotaFiscal ==
    /\ nf # Unused
    /\ ret.st = "none"
    /\ ret' = serializar_nota_fiscal(eng, nf)
    /\ nf' = NotaAposContingencia(eng, nf)
    /\ UNCHANGED <<prod, ctx, eng, evento, qr, fonte, hist, pc, inicial>>

NextNF == SerializarNotaFiscal

SpecNF == InitNF /\ [][NextNF]_vars

-----------------------------------------------------------------------------
(* SerializacaoXML.serializar_evento *)

Controles == {"\t", "\r", "\n"}

\* re.sub(r'[\t\r\n]', '', s)
SemControles(cs) == SelectSeq(cs, LAMBDA ch : ch \notin Controles)

\* str.upper() of the state codes the model's records carry
UpperUF(uf) == CASE uf = "pr" -> "PR" [] uf = "sp" -> "SP" [] OTHER -> uf

\* the children of <detEvento>, lines 1007-1015
DetEventoKids(ev) ==
    <<Leaf("descEvento", ev.descricao)>>
    \o (CASE ev.descricao = "Cancelamento" ->
               <<Leaf("nProt", ev.protocolo), Leaf("xJust", ev.justificativa)>>
          [] ev.descricao = "Carta de Correcao" ->
               <<Leaf("xCorrecao", JoinChars(SemControles(ev.correcao))),
                 Leaf("xCondUso", ev.cond_uso)>>
          [] ev.descricao = "Operacao nao Realizada" ->
               <<Leaf("xJust", ev.justificativa)>>
          [] OTHER -> <<>>)

\* characters lxml refuses in an element's text (ValueError: "All strings must be
\* XML compatible: Unicode or ASCII, no NULL bytes or control characters"); the
\* form feed stands for the control characters other than tab, CR and LF
IncompativeisComXml == {"\f"}

\* the assignment of line 1012 raises
XCorrecaoRaises(ev) ==
    /\ ev.descricao = "Carta de Correcao"
    /\ \E i \in 1..Len(ev.correcao) : ev.correcao[i] \in IncompativeisComXml

\* serializar_evento(evento): the <evento> element (lines 988-1020)
serializar_evento(e, ev) ==
    IF XCorrecaoRaises(ev) THEN Raise("ValueError") ELSE
    Ok(Element("evento", <<<<"versao", "1.00">>>>, "",
               <<Element("infEvento", <<<<"Id", ev.identificador>>>>, "",
                         <<Leaf("cOrgao", CODIGOS_ESTADOS[UpperUF(ev.uf)]),
                           Leaf("tpAmb", ToString(e.ambiente)), Leaf("CNPJ", ev.cnpj),
                           Leaf("chNFe", ev.chave),
                           Leaf("dhEvento", ev.data_emissao \o e.tz),
                           Leaf("tpEvento", ev.tp_evento),
                           Leaf("nSeqEvento", ToString(ev.n_seq_evento)),
                           Leaf("verEvento", "1.00"),
                           Element("detEvento", <<<<"versao", "1.00">>>>, "",
                                   DetEventoKids(ev))>>)>>))

\* the longest correction text of an event
MaxCorrecao == 2

DescricoesConhecidas == {"Cancelamento", "Carta de Correcao", "Operacao nao Realizada"}

Eventos ==
    [identificador : {"ID1101114123"}, uf : {"PR", "sp"}, cnpj : {"12345678000199"},
     chave : {"4123"}, data_emissao : {"2024-01-15T10:00:00"}, tp_evento : {"110111"},
     n_seq_evento : {1}, descricao : DescricoesConhecidas \cup {"Manifestacao", ""},
     protocolo : {"141240000000001"}, justificativa : {"Erro de digitacao"},
     correcao : SeqsAte({"a", "b", "\t", "\n", "\f"}, MaxCorrecao), cond_uso : {"A Carta..."}]

InitEvento ==
    /\ evento \in Eventos
    /\ eng \in {Engine(h, None, FALSE, "-03:00") : h \in BOOLEAN}
    /\ ret = NotCalled
    /\ prod = Unused /\ ctx = Unused /\ nf = Unused /\ qr = Unused
    /\ fonte = Unused /\ hist = Unused /\ pc = Unused /\ inicial = Unused

SerializarEvento ==
    /\ evento # Unused
    /\ ret.st = "none"
    /\ ret' = serializar_evento(eng, evento)
    /\ UNCHANGED <<prod, ctx, nf, eng, evento, qr, fonte, hist, pc, inicial>>

NextEvento == SerializarEvento

SpecEvento == InitEvento /\ [][NextEvento]_vars

-----------------------------------------------------------------------------
(* SerializacaoQrcode.gerar_qrcode.  The texts of the document it reads are
   sequences of one-character strings. *)

\* pynfe.utils.flags.VERSAO_QRCODE
VERSAO_QRCODE == <<"2">>

\* ord() of the characters the model's texts are made of
Ord(ch) ==
    CASE ch = "0" -> 48 [] ch = "1" -> 49 [] ch = "2" -> 50 [] ch = "3" -> 51
      [] ch = "4" -> 52 [] ch = "5" -> 53 [] ch = "6" -> 54 [] ch = "7" -> 55
      [] ch = "8" -> 56 [] ch = "9" -> 57
      [] ch = "A" -> 65 [] ch = "B" -> 66 [] ch = "C" -> 67 [] ch = "D" -> 68
      [] ch = "E" -> 69 [] ch = "F" -> 70 [] ch = "X" -> 88
      [] ch = "a" -> 97 [] ch = "b" -> 98 [] ch = "c" -> 99 [] ch = "d" -> 100
      [] ch = "e" -> 101 [] ch = "f" -> 102 [] ch = "x" -> 120
      [] ch = "+" -> 43 [] ch = "-" -> 45 [] ch = "." -> 46 [] ch = "/" -> 47
      [] ch = ":" -> 58 [] ch = "=" -> 61 [] ch = "|" -> 124

\* str.encode(): the bytes of an ASCII text
Encode(cs) == [i \in 1..Len(cs) |-> Ord(cs[i])]

\* bytes.lower(): ASCII capitals become small letters
LowerBytes(bs) == [i \in 1..Len(bs) |-> IF bs[i] \in 65..90 THEN bs[i] + 32 ELSE bs[i]]

HexLower == <<"0", "1", "2", "3", "4", "5", "6", "7", "8", "9", "a", "b", "c", "d", "e", "f">>

HexUpper == <<"0", "1", "2", "3", "4", "5", "6", "7", "8", "9", "A", "B", "C", "D", "E", "F">>

RECURSIVE HexOf(_, _)
HexOf(bs, alfabeto) ==
    IF bs = <<>> THEN <<>>
    ELSE <<alfabeto[(Head(bs) \div 16) + 1], alfabeto[(Head(bs) % 16) + 1]>>
         \o HexOf(Tail(bs), alfabeto)

\* bytes.hex()
BytesHex(bs) == HexOf(bs, HexLower)

\* base64.b16encode(bs).decode()
b16encode(bs) == HexOf(bs, HexUpper)

RECURSIVE Mix(_, _, _)
Mix(bs, i, j) == IF bs = <<>> THEN 0 ELSE (Head(bs) * (i + j) + Mix(Tail(bs), i, j + 1)) % 256

\* hashlib.sha1(bs).digest(): 20 bytes that depend on every byte of bs and on its
\* position (a stand-in for the library's digest, which the model does not compute)
sha1(bs) == [i \in 1..20 |-> (Mix(bs, i, 1) + 7 * Len(bs)) % 256]

\* s.replace('NFe', '')
RECURSIVE ReplaceNFe(_)
ReplaceNFe(cs) ==
    IF cs = <<>> THEN <<>>
    ELSE IF Len(cs) >= 3 /\ SubSeq(cs, 1, 3) = <<"N", "F", "e">>
         THEN ReplaceNFe(SubSeq(cs, 4, Len(cs)))
         ELSE <<Head(cs)>> \o ReplaceNFe(Tail(cs))

\* str(b) of a bytes object: b'...'
StrBytes(cs) == <<"b", "'">> \o cs \o <<"'">>

\* re.findall("-\d{2}", s): the non-overlapping matches, left to right
RECURSIVE FindallDia(_)
FindallDia(cs) ==
    IF Len(cs) < 3 THEN <<>>
    ELSE IF cs[1] = "-" /\ cs[2] \in Digits /\ cs[3] \in Digits
         THEN <<SubSeq(cs, 1, 3)>> \o FindallDia(SubSeq(cs, 4, Len(cs)))
         ELSE FindallDia(Tail(cs))

\* lines 1054-1055: re.sub('([0])', lambda m: replacements[m.group()], token) with
\* replacements = {'0': ''}
TokenSemZeros(token) == SelectSeq(token, LAMBDA ch : ch # "0")

\* nfe.xpath('a/b/c/text()'): the texts of the elements on the path, in document order
RECURSIVE XPathTexts(_, _)
XPathTexts(kids, path) ==
    IF kids = <<>> THEN <<>>
    ELSE LET k == Head(kids)
             aqui == IF k.tag # Head(path) THEN <<>>
                     ELSE IF Len(path) > 1 THEN XPathTexts(k.kids, Tail(path))
                     ELSE IF k.text = <<>> THEN <<>> ELSE <<k.text>>
         IN aqui \o XPathTexts(Tail(kids), path)

\* pynfe.utils.webservices.NFCE: the address parts of the states the model uses;
\* SC has no entry
NFCE ==
    [uf \in {"PR", "SP", "BA", "AC"} |->
        CASE uf = "PR" -> [HTTPS |-> "", HOMOLOGACAO |-> "",
                           QR |-> "http://www.fazenda.pr.gov.br/nfce/qrcode?",
                           URL |-> "http://www.fazenda.pr.gov.br/nfce/consulta"]
          [] uf = "SP" -> [HTTPS |-> "https://", HOMOLOGACAO |-> "",
                           QR |-> "nfce.fazenda.sp.gov.br/qrcode?",
                           URL |-> "nfce.fazenda.sp.gov.br/consulta"]
          [] uf = "BA" -> [HTTPS |-> "http://nfe.sefaz.ba.gov.br/",
                           HOMOLOGACAO |-> "http://hnfe.sefaz.ba.gov.br/",
                           QR |-> "servicos/nfce/qrcode.aspx?",
                           URL |-> "http://www.sefaz.ba.gov.br/nfce/consulta"]
          [] uf = "AC" -> [HTTPS |-> "http://www.", HOMOLOGACAO |-> "http://hml.",
                           QR |-> "sefaznet.ac.gov.br/nfce/qrcode?",
                           URL |-> "sefaznet.ac.gov.br/nfce/consulta"]]

lista_uf_padrao == {"PR", "CE", "RS", "RJ", "RO", "DF"}

\* lines 1080-1104: the address the payload is appended to, as a list of text pieces
QrBase(uf, tpamb) ==
    IF uf \in lista_uf_padrao THEN <<NFCE[uf].QR>>
    ELSE IF uf = "SP"
    THEN IF tpamb = <<"1">> THEN <<NFCE[uf].HTTPS, "www.", NFCE[uf].QR>>
         ELSE <<NFCE[uf].HTTPS, "www.homologacao.", NFCE[uf].QR>>
    ELSE IF tpamb = <<"1">> THEN <<NFCE[uf].HTTPS, NFCE[uf].QR>>
    ELSE <<NFCE[uf].HOMOLOGACAO, NFCE[uf].QR>>

\* lines 1080-1104: url_chave
UrlChave(uf, tpamb) ==
    IF uf \in lista_uf_padrao THEN <<NFCE[uf].URL>>
    ELSE IF uf = "SP"
    THEN IF tpamb = <<"1">> THEN <<NFCE[uf].HTTPS, "www.", NFCE[uf].URL>>
         ELSE <<NFCE[uf].HTTPS, "www.homologacao.", NFCE[uf].URL>>
    ELSE IF uf = "BA" THEN <<NFCE[uf].URL>>
    ELSE IF tpamb = <<"1">> THEN <<NFCE[uf].HTTPS, NFCE[uf].URL>>
    ELSE <<NFCE[uf].HOMOLOGACAO, NFCE[uf].URL>>

\* 'a|b|c'.format(...): the segments joined by '|'
RECURSIVE JoinPipe(_)
JoinPipe(segs) ==
    IF Len(segs) = 1 THEN segs[1] ELSE segs[1] \o <<"|">> \o JoinPipe(Tail(segs))

\* what gerar_qrcode reads from the document (lines 1032-1053); each is the
\* list of matches, of which the code takes the first (lista_dia: the second)
QrChave(xml) == ReplaceNFe(xml.kids[1].attr[1][2])

QrData(xml) == XPathTexts(xml.kids, <<"infNFe", "ide", "dhEmi">>)

QrTpamb(xml) == XPathTexts(xml.kids, <<"infNFe", "ide", "tpAmb">>)

QrCuf(xml) == XPathTexts(xml.kids, <<"infNFe", "ide", "cUF">>)

QrTotal(xml) == XPathTexts(xml.kids, <<"infNFe", "total", "ICMSTot", "vNF">>)

QrDigest(xml) ==
    XPathTexts(xml.kids, <<"Signature", "SignedInfo", "Reference", "DigestValue">>)

\* line 1036: the state codes whose number is cuf
QrUfs(cuf) == {uf \in DOMAIN CODIGOS_ESTADOS : CODIGOS_ESTADOS[uf] = JoinChars(cuf)}

\* lines 1051-1053
QrDia(data) == Tail(FindallDia(StrBytes(data))[2])

\* lines 1063-1064 (offline only)
QrDigestHex(digest) == BytesHex(LowerBytes(Encode(digest)))

\* lines 1058-1068: the authentication string before the hash is appended
QrUrl(token, xml, online) ==
    IF online
    THEN JoinPipe(<<QrChave(xml), VERSAO_QRCODE, QrTpamb(xml)[1], TokenSemZeros(token)>>)
    ELSE JoinPipe(<<QrChave(xml), VERSAO_QRCODE, QrTpamb(xml)[1], QrDia(QrData(xml)[1]),
                    QrTotal(xml)[1], QrDigestHex(QrDigest(xml)[1]), TokenSemZeros(token)>>)

\* lines 1070-1072
QrHash(url, csc) == b16encode(sha1(Encode(url \o csc)))

\* line 1074
QrPayload(token, csc, xml, online) ==
    <<"p", "=">> \o QrUrl(token, xml, online) \o <<"|">> \o QrHash(QrUrl(token, xml, online), csc)

\* str.strip() of a text none of whose pieces is white space
Strip(cs) == SelectSeq(cs, LAMBDA ch : ch \notin {" ", "\n", "\t"})

\* lines 1106-1108
InfNFeSupl(qrcode, url_chave) ==
    Node("infNFeSupl",
         <<Leaf("qrCode", <<"<![CDATA[">> \o Strip(qrcode) \o <<"]]>">>),
           Leaf("urlChave", url_chave)>>)

\* variant of Insert1 that appends the block after the last child
Insert1_no_fim(xml, info) == [xml EXCEPT !.kids = xml.kids \o <<info>>]

\* nfe.insert(1, info)
Insert1(xml, info) ==
    [xml EXCEPT !.kids = <<Head(xml.kids)>> \o <<info>> \o Tail(xml.kids)]

\* does a read of lines 1032-1053 fail? (an empty xpath result indexed, a key with
\* no state, a timestamp with fewer than two matches)
QrIndexError(xml) ==
    \/ xml.kids = <<>>
    \/ QrData(xml) = <<>> \/ QrTpamb(xml) = <<>> \/ QrCuf(xml) = <<>>
    \/ QrUfs(QrCuf(xml)[1]) = {}
    \/ QrTotal(xml) = <<>> \/ QrDigest(xml) = <<>>
    \/ Len(FindallDia(StrBytes(QrData(xml)[1]))) < 2

QrUf(xml) == CHOOSE uf \in QrUfs(QrCuf(xml)[1]) : TRUE

\* the document after nfe.insert(1, info): the tree the caller passed is the one changed
QrXmlDepois(token, csc, xml, online) ==
    Insert1(xml, InfNFeSupl(QrBase(QrUf(xml), QrTpamb(xml)[1])
                                \o QrPayload(token, csc, xml, online),
                            UrlChave(QrUf(xml), QrTpamb(xml)[1])))

\* etree.fromstring(etree.tostring(nfe)): a new tree with the same elements and texts
Reparse(xml) == xml

\* gerar_qrcode(token, csc, xml, return_qr, online)
gerar_qrcode(token, csc, xml, return_qr, online) ==
    IF QrIndexError(xml) THEN Raise("IndexError")
    ELSE IF QrUf(xml) \notin DOMAIN NFCE THEN Raise("KeyError")
    ELSE Ok([nfe |-> Reparse(QrXmlDepois(token, csc, xml, online)),
             qrcode |-> IF return_qr
                        THEN S(Strip(QrBase(QrUf(xml), QrTpamb(xml)[1])
                                     \o QrPayload(token, csc, xml, online)))
                        ELSE None])

-----------------------------------------------------------------------------
(* Inputs of gerar_qrcode: a signed NFC-e document, a token and a CSC. *)

MaxToken == 3

TokenChars == {"0", "1", "2"}

Tokens == UNION {[1..n -> TokenChars] : n \in 1..MaxToken}

Cscs == {<<"A", "B", "C", "1", "2", "3">>, <<"F", "0", "E", "1">>}

IdsNFe == {<<"N", "F", "e", "4", "1", "2", "4", "0", "6", "1", "2", "3", "4", "5">>, <<"N", "F", "e", "3", "5", "1", "9", "0", "9", "0", "0", "0", "1", "1">>}

DatasEmissao == {<<"2", "0", "2", "4", "-", "0", "3", "-", "0", "7", "T", "1", "0", ":", "1", "5", ":", "0", "0", "-", "0", "3", ":", "0", "0">>, <<"2", "0", "2", "4", "-", "1", "2", "-", "3", "1", "T", "2", "3", ":", "5", "9", ":", "5", "9", "+", "0", "5", ":", "3", "0">>, <<"2", "0", "1", "9", "-", "1", "0", "-", "0", "9", "T", "0", "8", ":", "0", "0", ":", "0", "0", "-", "1", "1", ":", "0", "0">>, <<"2", "0", "2", "0", "-", "0", "2", "-", "2", "9", "T", "0", "0", ":", "0", "0", ":", "0", "0", "+", "0", "0", ":", "0", "0">>}

DataSemDia == <<"2", "0", "2", "4">>

ValoresNF == {<<"1", "0", "0", ".", "0", "0">>, <<"0", ".", "0", "0">>, <<"1", "2", "3", "4", ".", "5">>}

DigestValues == {<<"A", "B">>, <<"a", "X", "+", "/">>, <<"a", "b">>, <<"F", "d", "9", "=">>}

CodigosUF == {<<"4", "1">>, <<"3", "5">>, <<"2", "9">>, <<"1", "2">>, <<"4", "2">>, <<"9", "9">>}

Assinatura(digest) ==
    Node("Signature",
         <<Node("SignedInfo", <<Node("Reference", <<Leaf("DigestValue", digest)>>)>>)>>)

InfNFeAssinada(id, cuf, dhEmi, tpAmb, vNF) ==
    Element("infNFe", <<<<"Id", id>>>>, "",
            <<Node("ide", <<Leaf("cUF", cuf), Leaf("dhEmi", dhEmi), Leaf("tpAmb", tpAmb)>>),
              Node("total", <<Node("ICMSTot", <<Leaf("vNF", vNF)>>)>>)>>)

QrDoc(id, cuf, dhEmi, tpAmb, vNF, digest) ==
    Node("NFe", <<InfNFeAssinada(id, cuf, dhEmi, tpAmb, vNF), Assinatura(digest)>>)

QrDocSemAssinatura == Node("NFe", <<InfNFeAssinada(<<"N", "F", "e", "4", "1", "2", "4", "0", "6", "1", "2", "3", "4", "5">>, <<"4", "1">>, <<"2", "0", "2", "4", "-", "0", "3", "-", "0", "7", "T", "1", "0", ":", "1", "5", ":", "0", "0", "-", "0", "3", ":", "0", "0">>, <<"1">>, <<"1", "0", "0", ".", "0", "0">>)>>)

Chamada(token, csc, xml, return_qr, online) ==
    [token |-> token, csc |-> csc, xml |-> xml, return_qr |-> return_qr, online |-> online]

ChamadasToken ==
    {Chamada(t, c, QrDoc(<<"N", "F", "e", "4", "1", "2", "4", "0", "6", "1", "2", "3", "4", "5">>, <<"4", "1">>, <<"2", "0", "2", "4", "-", "0", "3", "-", "0", "7", "T", "1", "0", ":", "1", "5", ":", "0", "0", "-", "0", "3", ":", "0", "0">>, a, <<"1", "0", "0", ".", "0", "0">>, d), TRUE, o) :
        t \in Tokens, c \in Cscs, a \in {<<"1">>, <<"2">>}, d \in DigestValues, o \in BOOLEAN}

ChamadasData ==
    {Chamada(<<"1", "0", "2">>, <<"A", "B", "C", "1", "2", "3">>, QrDoc(i, <<"4", "1">>, dh, <<"1">>, v, <<"a", "X", "+", "/">>), TRUE, o) :
        i \in IdsNFe, dh \in DatasEmissao \cup {DataSemDia}, v \in ValoresNF, o \in BOOLEAN}

ChamadasUF ==
    {Chamada(<<"1">>, <<"A", "B", "C", "1", "2", "3">>, QrDoc(<<"N", "F", "e", "4", "1", "2", "4", "0", "6", "1", "2", "3", "4", "5">>, u, <<"2", "0", "2", "4", "-", "0", "3", "-", "0", "7", "T", "1", "0", ":", "1", "5", ":", "0", "0", "-", "0", "3", ":", "0", "0">>, a, <<"1", "0", "0", ".", "0", "0">>, <<"A", "B">>), r, o) :
        u \in CodigosUF, a \in {<<"1">>, <<"2">>}, r \in BOOLEAN, o \in BOOLEAN}
    \cup {Chamada(<<"1">>, <<"A", "B", "C", "1", "2", "3">>, QrDocSemAssinatura, TRUE, o) : o \in BOOLEAN}

InitQr ==
    /\ qr \in ChamadasToken \cup ChamadasData \cup ChamadasUF
    /\ ret = NotCalled
    /\ prod = Unused /\ ctx = Unused /\ nf = Unused /\ eng = Unused /\ evento = Unused
    /\ fonte = Unused /\ hist = Unused /\ pc = Unused /\ inicial = Unused

GerarQrcode ==
    /\ ret = NotCalled
    /\ ret' = gerar_qrcode(qr.token, qr.csc, qr.xml, qr.return_qr, qr.online)
    /\ qr' = IF ret'.st = "ok"
             THEN [qr EXCEPT !.xml = QrXmlDepois(qr.token, qr.csc, qr.xml, qr.online)]
             ELSE qr
    /\ UNCHANGED <<prod, ctx, nf, eng, evento, fonte, hist, pc, inicial>>

NextQr == GerarQrcode

SpecQr == InitQr /\ [][NextQr]_vars

-----------------------------------------------------------------------------
(* Properties of _serializar_produto_servico and _serializar_nota_fiscal *)

\* the children of <imposto> of a returned <det>
ImpostoDe(det) == Find(det.kids, "imposto").kids

\* the line item is a service item: its ISSQN base is present and non-zero
BaseIssqnNaoZero == Truthy(prod.issqn_valor_base_calculo)

\* C1: serializing a line item whose ICMS code is none of the known codes ends in
\* an error; no ICMS node is emitted for it and no <det> is returned.
C1_CodigoDesconhecidoLevantaErro ==
    (ret.st # "none" /\ prod.icms_modalidade \notin CodigosIcms) => ret.st = "raise"

\* the position of a section in the order of the children of <infNFe>
OrdemSecao(tag) ==
    CASE tag = "ide" -> 1 [] tag = "emit" -> 2 [] tag = "dest" -> 3 [] tag = "autXML" -> 4
      [] tag = "retirada" -> 5 [] tag = "entrega" -> 6 [] tag = "det" -> 7
      [] tag = "total" -> 8 [] tag = "transp" -> 9 [] tag = "cobr" -> 10
      [] tag = "pag" -> 11 [] tag = "infIntermed" -> 12 [] tag = "infAdic" -> 13
      [] tag = "infRespTec" -> 14 [] OTHER -> 0

Secoes ==
    {"ide", "emit", "dest", "autXML", "retirada", "entrega", "det", "total", "transp",
     "cobr", "pag", "infIntermed", "infAdic", "infRespTec"}

\* C2: in every returned document the children of <infNFe> are sections of the list
\* ide, emit, dest, autXML, retirada, entrega, det, total, transp, cobr, pag,
\* infIntermed, infAdic, infRespTec, and no section comes before one that precedes
\* it in the list.
C2_OrdemDasSecoes ==
    ret.st = "ok" =>
        LET tags == Tags(ret.val.kids)
        IN /\ \A i \in 1..Len(tags) : tags[i] \in Secoes
           /\ \A i, j \in 1..Len(tags) :
                 i < j => OrdemSecao(tags[i]) <= OrdemSecao(tags[j])

\* a returned document that has every one of the fourteen sections and two items
C2_TodasAsSecoes ==
    /\ ret.st = "ok"
    /\ \A t \in Secoes : HasTag(ret.val.kids, t)
    /\ CountTag(ret.val.kids, "det") = 2

\* the children of <detPag> of a returned document
DetPagDe(doc) == Find(Find(doc.kids, "pag").kids, "detPag").kids

\* C3: when the purpose of the document is adjustment ('3') or return ('4'), <detPag>
\* has one tPag, '90', and one vPag, '0.00', whatever payment method and total the
\* document declares.
C3_AjusteOuDevolucaoSemPagamento ==
    (ret.st = "ok" /\ nf.finalidade_emissao \in {"3", "4"}) =>
        /\ CountTag(DetPagDe(ret.val), "tPag") = 1
        /\ CountTag(DetPagDe(ret.val), "vPag") = 1
        /\ TextAt(DetPagDe(ret.val), "tPag") = "90"
        /\ TextAt(DetPagDe(ret.val), "vPag") = "0.00"

\* a return document that declares payment method 1 and a total of 100.00
C3_DevolucaoComPagamentoDeclarado ==
    /\ ret.st = "ok"
    /\ nf.finalidade_emissao = "4"
    /\ nf.tipo_pagamento = 1
    /\ nf.totais_icms_total_nota = Dec(10000, 2)
    /\ TextAt(DetPagDe(ret.val), "tPag") = "90"

\* the children of <ide> of a returned document
IdeDe(doc) == Find(doc.kids, "ide").kids

\* C4: in a modelo 65 document indFinal and indPres are both '1' whatever the input
\* holds; in a modelo 55 document they are the input's cliente_final and
\* indicador_presencial.
C4_IndicadoresPorModelo ==
    ret.st = "ok" =>
        /\ nf.modelo = 65 =>
              /\ TextAt(IdeDe(ret.val), "indFinal") = "1"
              /\ TextAt(IdeDe(ret.val), "indPres") = "1"
        /\ nf.modelo = 55 =>
              /\ TextAt(IdeDe(ret.val), "indFinal") = ToString(nf.cliente_final)
              /\ TextAt(IdeDe(ret.val), "indPres") = ToString(nf.indicador_presencial)

\* a modelo 65 document whose input is not final-consumer and not in-person
C4_CupomComEntradaDiferente ==
    /\ ret.st = "ok"
    /\ nf.modelo = 65
    /\ nf.cliente_final = 0
    /\ nf.indicador_presencial = 2
    /\ TextAt(IdeDe(ret.val), "indFinal") = "1"

\* C5 as stated: for an item with a non-zero ISSQN base, in either modelo, <imposto>
\* has an ISSQN sub-tree and none of ICMS, IPI, PIS, COFINS.
C5_IssqnSubstituiTodosOsTributos ==
    (ret.st = "ok" /\ BaseIssqnNaoZero) =>
        /\ HasTag(ImpostoDe(ret.val), "ISSQN")
        /\ \A t \in {"ICMS", "IPI", "PIS", "COFINS"} : ~HasTag(ImpostoDe(ret.val), t)

\* C5, amended: for an item with a non-zero ISSQN base <imposto> has one ISSQN
\* sub-tree and neither ICMS nor IPI; PIS and COFINS are both absent for modelo 65
\* and both present for modelo 55.
C5_IssqnSubstituiIcmsEIpi ==
    (ret.st = "ok" /\ BaseIssqnNaoZero) =>
        /\ CountTag(ImpostoDe(ret.val), "ISSQN") = 1
        /\ ~HasTag(ImpostoDe(ret.val), "ICMS")
        /\ ~HasTag(ImpostoDe(ret.val), "IPI")
        /\ ctx.modelo = 65 =>
              ~HasTag(ImpostoDe(ret.val), "PIS") /\ ~HasTag(ImpostoDe(ret.val), "COFINS")
        /\ ctx.modelo = 55 =>
              HasTag(ImpostoDe(ret.val), "PIS") /\ HasTag(ImpostoDe(ret.val), "COFINS")

\* a modelo 55 service item that also declares an IPI class code
C5_ServicoComIpiDeclarado ==
    /\ ret.st = "ok"
    /\ BaseIssqnNaoZero
    /\ ctx.modelo = 55
    /\ prod.icms_modalidade = "00"
    /\ TruthyStr(prod.ipi_codigo_enquadramento)
    /\ HasTag(ImpostoDe(ret.val), "ISSQN")

\* the outcome of serializing the same document with a recipient
ComDestinatario == serializar_nota_fiscal(eng, [nf EXCEPT !.cliente = S(ClienteBase)])

\* C6: a modelo 55 document without recipient ends in an error; a modelo 65 document
\* without recipient has the outcome of the same document with a recipient, and when
\* that is a document, it is that document without its dest section.
C6_DestinatarioAusente ==
    (ret.st # "none" /\ nf.cliente = None) =>
        /\ nf.modelo = 55 => ret.st = "raise"
        /\ nf.modelo = 65 =>
              /\ ret.st = ComDestinatario.st
              /\ ret.st = "ok" =>
                    /\ ~HasTag(ret.val.kids, "dest")
                    /\ HasTag(ComDestinatario.val.kids, "dest")
                    /\ ret.val.kids = RemoveAll(ComDestinatario.val.kids, "dest")
                    /\ ret.val.attr = ComDestinatario.val.attr

\* a modelo 65 document without recipient that was serialized with all its sections
C6_CupomSemDestinatario ==
    /\ ret.st = "ok"
    /\ nf.cliente = None
    /\ nf.modelo = 65
    /\ nf.retirada # None
    /\ Len(nf.produtos_e_servicos) = 2
    /\ ~HasTag(ret.val.kids, "dest")

-----------------------------------------------------------------------------
(* Properties of serializar_evento *)

\* C7: serializar_evento of an event whose description is none of the three known
\* ones ends in an error; it never returns a document whose detEvento holds only
\* the description.
C7_DescricaoDesconhecidaLevantaErro ==
    (ret.st # "none" /\ evento.descricao \notin DescricoesConhecidas) => ret.st = "raise"

-----------------------------------------------------------------------------
(* Properties of gerar_qrcode *)

\* the text gerar_qrcode put in <qrCode> of the returned document
QrCodeDe(doc) == Find(Find(doc.kids, "infNFeSupl").kids, "qrCode").text

\* the payload in that text: from 'p' to the end, without the closing CDATA mark
PayloadDe(doc) ==
    LET t == QrCodeDe(doc)
        inicio == CHOOSE i \in 1..Len(t) : t[i] = "p" /\ \A j \in 1..(i - 1) : t[j] # "p"
    IN SubSeq(t, inicio, Len(t) - 1)

\* s.split('|')
RECURSIVE SplitPipe(_)
SplitPipe(cs) ==
    IF \A i \in 1..Len(cs) : cs[i] # "|" THEN <<cs>>
    ELSE LET k == CHOOSE i \in 1..Len(cs) : cs[i] = "|" /\ \A j \in 1..(i - 1) : cs[j] # "|"
         IN <<SubSeq(cs, 1, k - 1)>> \o SplitPipe(SubSeq(cs, k + 1, Len(cs)))

\* the segments of the payload after 'p=': those of the authentication string,
\* then the hash
SegmentosDe(doc) == SplitPipe(SubSeq(PayloadDe(doc), 3, Len(PayloadDe(doc))))

\* the authentication string of the payload: all its segments but the last
AutenticacaoDe(doc) == JoinPipe(SubSeq(SegmentosDe(doc), 1, Len(SegmentosDe(doc)) - 1))

\* a token without its leading zero digits
RECURSIVE SemZerosAEsquerda(_)
SemZerosAEsquerda(cs) ==
    IF cs # <<>> /\ Head(cs) = "0" THEN SemZerosAEsquerda(Tail(cs)) ELSE cs

\* the Id of <infNFe> without the three characters 'NFe' it starts with
ChaveDeAcesso(doc) == SubSeq(doc.kids[1].attr[1][2], 4, Len(doc.kids[1].attr[1][2]))

\* the text of the one element on a path of the document
TextoEm(doc, path) == XPathTexts(doc.kids, path)[1]

\* the two-digit day of month of a timestamp YYYY-MM-DDThh:mm:ss+hh:mm
DiaDoMes(dhEmi) == SubSeq(dhEmi, 9, 10)

\* C8: only the leading zeros of the token are removed before it is placed in the
\* authentication string; a zero that follows a non-zero digit is kept.
C8_SoZerosAEsquerdaRemovidos ==
    ret.st = "ok" =>
        SegmentosDe(ret.val.nfe)[Len(SegmentosDe(ret.val.nfe)) - 1]
            = SemZerosAEsquerda(qr.token)

\* C9: the payload is 'p=' + S + '|' + H, with H the 40 upper-case hexadecimal
\* characters of the 20-byte digest of S followed by the csc; online, S is
\* access-key|layout-version|environment|token, the access key being the Id of
\* <infNFe> without its 'NFe' prefix.
C9_PayloadEHash ==
    ret.st = "ok" =>
        LET doc == ret.val.nfe
            str == AutenticacaoDe(doc)
            hash == SegmentosDe(doc)[Len(SegmentosDe(doc))]
        IN /\ SubSeq(PayloadDe(doc), 1, 2) = <<"p", "=">>
           /\ PayloadDe(doc) = <<"p", "=">> \o str \o <<"|">> \o hash
           /\ Len(sha1(Encode(str \o qr.csc))) = 20
           /\ hash = HexOf(sha1(Encode(str \o qr.csc)), HexUpper)
           /\ Len(hash) = 40
           /\ qr.online =>
                 str = JoinPipe(<<ChaveDeAcesso(doc), VERSAO_QRCODE,
                                  TextoEm(doc, <<"infNFe", "ide", "tpAmb">>),
                                  SemZerosAEsquerda(qr.token)>>)

\* C10: offline, the authentication string has exactly the seven segments
\* access-key|layout-version|environment|day|total|digest|token: day is the two-digit
\* day of month of dhEmi, total the text of ICMSTot/vNF, digest the lower-case
\* hexadecimal rendering of the DigestValue of the signature block.
C10_SeteSegmentosOffline ==
    (ret.st = "ok" /\ ~qr.online) =>
        LET doc == ret.val.nfe
        IN SubSeq(SegmentosDe(doc), 1, Len(SegmentosDe(doc)) - 1)
             = <<ChaveDeAcesso(doc), VERSAO_QRCODE,
                 TextoEm(doc, <<"infNFe", "ide", "tpAmb">>),
                 DiaDoMes(TextoEm(doc, <<"infNFe", "ide", "dhEmi">>)),
                 TextoEm(doc, <<"infNFe", "total", "ICMSTot", "vNF">>),
                 HexOf(Encode(TextoEm(doc, <<"Signature", "SignedInfo", "Reference",
                                             "DigestValue">>)), HexLower),
                 SemZerosAEsquerda(qr.token)>>

\* the CDATA marks that line 1107 writes around the QR text
EntreMarcasCdata(cs) == <<"<![CDATA[">> \o cs \o <<"]]>">>

UfSemEntradaNaTabela(doc) ==
    /\ QrCuf(doc) # <<>>
    /\ \A uf \in QrUfs(QrCuf(doc)[1]) : uf \notin DOMAIN NFCE

\* C12: gerar_qrcode on a document whose cUF has no entry in the table of QR
\* addresses ends in the typed unsupported-jurisdiction error, and no infNFeSupl
\* block has been inserted into the document.
C12_UfSemTabelaErroTipado ==
    (ret.st # "none" /\ UfSemEntradaNaTabela(qr.xml)) =>
        /\ ret.st = "raise"
        /\ ret.err = "UnsupportedJurisdictionError"
        /\ ~HasTag(qr.xml.kids, "infNFeSupl")

-----------------------------------------------------------------------------
(* Properties of the tax groups of a line item *)

\* the variant nodes of the <ICMS> group of a returned <det>
IcmsDe(det) == Find(ImpostoDe(det), "ICMS").kids

SubstituicaoTributaria == {"modBCST", "pMVAST", "pRedBCST", "vBCST", "pICMSST", "vICMSST"}

\* C13: for an item of ICMS code '00' the node ICMS00 has exactly the children orig,
\* CST, modBC, vBC, pICMS, vICMS in that order, with vBC, pICMS and vICMS formatted
\* to two decimal places, and none of the substitution-tax fields.
C13_Icms00 ==
    (ret.st = "ok" /\ prod.icms_modalidade = "00" /\ ~BaseIssqnNaoZero) =>
        /\ Tags(IcmsDe(ret.val)) = <<"ICMS00">>
        /\ Tags(IcmsDe(ret.val)[1].kids) = <<"orig", "CST", "modBC", "vBC", "pICMS", "vICMS">>
        /\ TextAt(IcmsDe(ret.val)[1].kids, "CST") = "00"
        /\ TextAt(IcmsDe(ret.val)[1].kids, "vBC")
             = Fmt(OrZero(prod.icms_valor_base_calculo), 2)
        /\ TextAt(IcmsDe(ret.val)[1].kids, "pICMS") = Fmt(OrZero(prod.icms_aliquota), 2)
        /\ TextAt(IcmsDe(ret.val)[1].kids, "vICMS") = Fmt(OrZero(prod.icms_valor), 2)
        /\ \A t \in SubstituicaoTributaria : ~HasTag(IcmsDe(ret.val)[1].kids, t)

\* an item of code 00 with base 100, rate 18 and value 18.005, and substitution-tax
\* values supplied, came out as 100.00, 18.00 and 18.00
C13_Icms00DuasCasas ==
    /\ ret.st = "ok"
    /\ prod.icms_modalidade = "00"
    /\ prod.icms_valor_base_calculo = Dec(100, 0)
    /\ prod.icms_aliquota = Dec(18, 0)
    /\ prod.icms_valor = Dec(18005, 3)
    /\ prod.icms_st_valor # None
    /\ TextAt(IcmsDe(ret.val)[1].kids, "vBC") = "100.00"
    /\ TextAt(IcmsDe(ret.val)[1].kids, "pICMS") = "18.00"
    /\ TextAt(IcmsDe(ret.val)[1].kids, "vICMS") = "18.00"

\* C14: the finished ICMS node has the field modBC for codes 00, 10, 20, 51, 70 and
\* 90 and has no modBC for codes 30, 40, 41, 50 and 60; codes 40, 41 and 50 all give
\* a node named ICMS40 that holds only orig and CST.
C14_ModBCPorCodigo ==
    (ret.st = "ok" /\ ~BaseIssqnNaoZero) =>
        /\ prod.icms_modalidade \in {"00", "10", "20", "51", "70", "90"} =>
              /\ Tags(IcmsDe(ret.val)) = <<"ICMS" \o prod.icms_modalidade>>
              /\ CountTag(IcmsDe(ret.val)[1].kids, "modBC") = 1
        /\ prod.icms_modalidade \in {"30", "60"} =>
              /\ Tags(IcmsDe(ret.val)) = <<"ICMS" \o prod.icms_modalidade>>
              /\ ~HasTag(IcmsDe(ret.val)[1].kids, "modBC")
        /\ prod.icms_modalidade \in {"40", "41", "50"} =>
              /\ Tags(IcmsDe(ret.val)) = <<"ICMS40">>
              /\ Tags(IcmsDe(ret.val)[1].kids) = <<"orig", "CST">>
              /\ TextAt(IcmsDe(ret.val)[1].kids, "CST") = prod.icms_modalidade

\* an item of code 30 came out without modBC, before its substitution-tax fields
C14_Icms30SemModBC ==
    /\ ret.st = "ok"
    /\ prod.icms_modalidade = "30"
    /\ ~BaseIssqnNaoZero
    /\ Tags(IcmsDe(ret.val)[1].kids)
         = <<"orig", "CST", "modBCST", "vBCST", "pICMSST", "vICMSST">>

\* the document of the call is flagged final-consumer and the item's substitution
\* tax was not already withheld
ConsumidorFinalSemRetencao ==
    ctx.nota # None /\ ctx.nota[1].cliente_final = 1 /\ prod.icms_st_retido = FALSE

CamposEfetivos == <<"pRedBCEfet", "vBCEfet", "pICMSEfet", "vICMSEfet">>

\* the last n elements of a sequence
Ultimos(s, n) == SubSeq(s, Len(s) - n + 1, Len(s))

\* C15: for codes 60 and 500 alike, a final-consumer document with substitution tax
\* not withheld gives vBCSTRet 0.00, pST 0.0000 and vICMSSTRet 0.00 followed by
\* pRedBCEfet, vBCEfet, pICMSEfet, vICMSEfet; in every other case the node has none
\* of the four effective-value fields.
C15_PresumidoZero ==
    (ret.st # "none" /\ prod.icms_modalidade \in {"60", "500"} /\ ~BaseIssqnNaoZero) =>
        IF ConsumidorFinalSemRetencao
        THEN /\ ret.st = "ok"
             /\ LET k == IcmsDe(ret.val)[1].kids
                IN /\ TextAt(k, "vBCSTRet") = "0.00"
                   /\ TextAt(k, "pST") = "0.0000"
                   /\ TextAt(k, "vICMSSTRet") = "0.00"
                   /\ Ultimos(Tags(k), 5) = <<"vICMSSTRet">> \o CamposEfetivos
                   /\ \A i \in 1..4 : CountTag(k, CamposEfetivos[i]) = 1
        ELSE ret.st = "ok" =>
                \A i \in 1..4 : ~HasTag(IcmsDe(ret.val)[1].kids, CamposEfetivos[i])

\* a code-60 item with computed substitution values, sold to a final consumer without
\* withholding: the retained fields are zero and the computed values are the
\* effective ones
C15_Icms60ConsumidorFinal ==
    /\ ret.st = "ok"
    /\ prod.icms_modalidade = "60"
    /\ ~BaseIssqnNaoZero
    /\ ConsumidorFinalSemRetencao
    /\ prod.icms_st_valor_base_calculo = Dec(20000, 2)
    /\ TextAt(IcmsDe(ret.val)[1].kids, "vBCSTRet") = "0.00"
    /\ TextAt(IcmsDe(ret.val)[1].kids, "vBCEfet") = "200.00"
    /\ TextAt(IcmsDe(ret.val)[1].kids, "pICMSEfet") = "12.0000"

\* the variant child of the PIS or COFINS group of a finished item
VarianteDe(det, grupo) == Find(ImpostoDe(det), grupo).kids[1]

Textos(kids) == [i \in 1..Len(kids) |-> kids[i].text]

\* the declared rate is present and numerically non-zero
AliquotaNaoZero(a) == a # None /\ a[1] # 0

\* the node name and field names the dispatch on a PIS or COFINS code selects
FormaPisCofins(nome, m, aliq) ==
    CASE m \in {"04", "05", "06", "07", "08", "09"} -> <<nome \o "NT", <<"CST">>>>
      [] m \in {"01", "02"} -> <<nome \o "Aliq", <<"CST", "vBC", "p" \o nome, "v" \o nome>>>>
      [] m = "03" -> <<nome \o "Qtde", <<"CST", "qBCProd", "vAliqProd", "v" \o nome>>>>
      [] OTHER -> <<nome \o "Outr",
                    IF AliquotaNaoZero(aliq)
                    THEN <<"CST", "vBC", "p" \o nome, "v" \o nome>>
                    ELSE <<"CST", "qBCProd", "vAliqProd", "v" \o nome>>>>

\* PIS and COFINS of the item are declared with the same code, base, rate and value
PisECofinsIguais ==
    /\ prod.pis_modalidade = prod.cofins_modalidade
    /\ prod.pis_valor_base_calculo = prod.cofins_valor_base_calculo
    /\ prod.pis_aliquota_percentual = prod.cofins_aliquota_percentual
    /\ prod.pis_valor = prod.cofins_valor

\* C16: in a modelo 55 item PIS and COFINS each dispatch on their own code to the
\* not-taxed, rate, quantity or 'other' node with the fields of that node, and each
\* field has as many decimal places in the PIS node as in the matching COFINS node:
\* declared with the same code, base, rate and value, the two nodes carry the same
\* texts.
C16_PisECofinsMesmoFormato ==
    (ret.st # "none" /\ ctx.modelo = 55 /\ prod.pis_valor # None /\ prod.cofins_valor # None) =>
        /\ ret.st = "ok"
        /\ LET pis == VarianteDe(ret.val, "PIS")
               cofins == VarianteDe(ret.val, "COFINS")
           IN /\ <<pis.tag, Tags(pis.kids)>>
                   = FormaPisCofins("PIS", prod.pis_modalidade, prod.pis_aliquota_percentual)
              /\ <<cofins.tag, Tags(cofins.kids)>>
                   = FormaPisCofins("COFINS", prod.cofins_modalidade,
                                    prod.cofins_aliquota_percentual)
              /\ PisECofinsIguais => Textos(pis.kids) = Textos(cofins.kids)

\* the IPI sub-trees of a finished item's imposto
IpiDe(det) == SelectSeq(ImpostoDe(det), LAMBDA e : e.tag = "IPI")

\* C17: an IPI sub-tree is in the imposto only if the ICMS code is not '41' and the
\* item has no service-tax base; when it is there and the item has a situation code,
\* it holds, after cEnq, the single child IPITrib (CST, vBC, pIPI, vIPI) for
\* situation codes 00, 49, 50 and 99 and the single child IPINT (CST) for every other
\* situation code.
C17_IpiTributadoOuNaoTributado ==
    (ret.st = "ok" /\ IpiDe(ret.val) # <<>>) =>
        /\ Len(IpiDe(ret.val)) = 1
        /\ prod.icms_modalidade # "41"
        /\ ~BaseIssqnNaoZero
        /\ prod.ipi_situacao_tributaria # None =>
              LET ipi == IpiDe(ret.val)[1].kids
                  cst == prod.ipi_situacao_tributaria[1]
              IN /\ Len(ipi) = 2
                 /\ ipi[1].tag = "cEnq"
                 /\ TextAt(ipi[2].kids, "CST") = cst
                 /\ IF cst \in {"00", "49", "50", "99"}
                    THEN /\ ipi[2].tag = "IPITrib"
                         /\ Tags(ipi[2].kids) = <<"CST", "vBC", "pIPI", "vIPI">>
                    ELSE /\ ipi[2].tag = "IPINT"
                         /\ Tags(ipi[2].kids) = <<"CST">>

\* an item of ICMS code 00 with situation code 99 came out with the taxed shape
C17_IpiTributado99 ==
    /\ ret.st = "ok"
    /\ prod.icms_modalidade = "00"
    /\ prod.ipi_situacao_tributaria = S("99")
    /\ IpiDe(ret.val) # <<>>
    /\ Tags(IpiDe(ret.val)[1].kids) = <<"cEnq", "IPITrib">>

\* the imposto has exactly one group of the name, holding exactly one variant child
UmGrupoUmaVariante(imposto, grupo) ==
    CountTag(imposto, grupo) = 1 /\ Len(Find(imposto, grupo).kids) = 1

\* C18 (as written): for an item of any modelo without a service-tax base the imposto
\* has exactly one ICMS group, one PIS group and one COFINS group, each holding
\* exactly one variant child.
C18_UmGrupoPorFamiliaEmTodoModelo ==
    (ret.st = "ok" /\ ~BaseIssqnNaoZero) =>
        /\ UmGrupoUmaVariante(ImpostoDe(ret.val), "ICMS")
        /\ UmGrupoUmaVariante(ImpostoDe(ret.val), "PIS")
        /\ UmGrupoUmaVariante(ImpostoDe(ret.val), "COFINS")

\* C18 (amended): without a service-tax base the imposto has exactly one ICMS group
\* with one variant child, with one it has no ICMS group and exactly one ISSQN group;
\* an item of modelo 55 has exactly one PIS group and one COFINS group, each with one
\* variant child; an item of modelo 65 has no PIS group and no COFINS group.
C18_UmGrupoPorFamilia ==
    ret.st = "ok" =>
        LET imposto == ImpostoDe(ret.val)
        IN /\ IF BaseIssqnNaoZero
              THEN CountTag(imposto, "ICMS") = 0 /\ CountTag(imposto, "ISSQN") = 1
              ELSE UmGrupoUmaVariante(imposto, "ICMS") /\ CountTag(imposto, "ISSQN") = 0
           /\ IF ctx.modelo = 55
              THEN /\ UmGrupoUmaVariante(imposto, "PIS")
                   /\ UmGrupoUmaVariante(imposto, "COFINS")
              ELSE CountTag(imposto, "PIS") = 0 /\ CountTag(imposto, "COFINS") = 0

\* a modelo 65 item without a service-tax base came out with its ICMS group alone
C18_ItemDeCupomSoComIcms ==
    /\ ret.st = "ok"
    /\ ctx.modelo = 65
    /\ ~BaseIssqnNaoZero
    /\ prod.ipi_codigo_enquadramento = None
    /\ Tags(ImpostoDe(ret.val)) = <<"ICMS">>
    /\ Len(Find(ImpostoDe(ret.val), "ICMS").kids) = 1

-----------------------------------------------------------------------------
(* Properties of the error handling of _serializar_nota_fiscal *)

\* one of the guarded builders of the document raises: the authorized-viewer list of
\* a modelo 55 document, the ISSQN totals, the card block or the intermediary block
ErroEmBlocoGuardado(n) ==
    \/ n.modelo = 55 /\ serializar_autxml(n).st = "raise"
    \/ Truthy(n.totais_issqn_base_calculo_iss) /\ n.issqn_vissret = Absent
    \/ ~AjusteOuDevolucao(n) /\ n.cartao_tipo_integracao = Absent
    \/ n.intermed_cnpj = Absent

\* C19: a call in which the authorized-viewer list, the ISSQN totals, the card block
\* or the intermediary block raises ends with an error for the caller; it never
\* returns a document.
C19_ErroDeBlocoChegaAoChamador ==
    (ret.st # "none" /\ ErroEmBlocoGuardado(nf)) => ret.st = "raise"

-----------------------------------------------------------------------------
(* SerializacaoXML.exportar and the data source it reads *)

MaxObjetos == 2

MaxChamadas == 3

\* the data source after construction: the objects it holds, oldest first, each under
\* the number it was added with, and how many times limpar_dados has run
FonteVazia == [dados |-> <<>>, adicionados |-> 0, limpezas |-> 0]

\* FonteDados.adicionar_objeto
adicionar_objeto(f, n) ==
    [f EXCEPT !.dados = Append(@, [id |-> f.adicionados + 1, nota |-> n]),
              !.adicionados = @ + 1]

\* FonteDados.obter_lista(_classe=NotaFiscal)
obter_lista(f) == f.dados

\* FonteDados.limpar_dados
limpar_dados(f) == [f EXCEPT !.dados = <<>>, !.limpezas = @ + 1]

\* lines 72-73: the outcome of _serializar_nota_fiscal for each document of the list
Tentativas(e, lista) ==
    [i \in 1..Len(lista) |-> serializar_nota_fiscal(e, lista[i].nota)]

\* the position of the first document whose serialization raises, Len + 1 if none
PrimeiraFalha(rs) ==
    IF \E i \in 1..Len(rs) : rs[i].st = "raise"
    THEN CHOOSE i \in 1..Len(rs) :
             rs[i].st = "raise" /\ \A j \in 1..(i - 1) : rs[j].st # "raise"
    ELSE Len(rs) + 1

\* lines 66-81 with retorna_string=False, given the outcomes rs of the loop: the <NFe>
\* root holding one child per document, or the first exception, raised again by the
\* handler of line 80
exportar(rs) ==
    IF PrimeiraFalha(rs) <= Len(rs) THEN Raise(rs[PrimeiraFalha(rs)].err)
    ELSE Ok(Node("NFe", [i \in 1..Len(rs) |-> rs[i].val]))

\* the positions of the documents the loop of line 72 handed to
\* _serializar_nota_fiscal
Alcancados(rs) == {i \in 1..Len(rs) : i <= PrimeiraFalha(rs)}

\* variant of FonteAposExportar that clears only after a call that returned
FonteAposExportar_so_no_retorno(e, f, limpar, rs) ==
    IF limpar /\ exportar(rs).st = "ok" THEN limpar_dados(f) ELSE f

\* the data source after the call: the documents reached keep what
\* _serializar_nota_fiscal wrote to them, and the finally clause of lines 82-84
\* clears the source when limpar is set
FonteAposExportar(e, f, limpar, rs) ==
    IF limpar THEN limpar_dados(f)
    ELSE [f EXCEPT !.dados =
            [i \in 1..Len(f.dados) |->
                IF i \in Alcancados(rs)
                THEN [f.dados[i] EXCEPT !.nota = NotaAposContingencia(e, @)]
                ELSE f.dados[i]]]

\* a document that serializes and a document whose second item raises TypeError
NotasExportar ==
    {NotaBase, [NotaBase EXCEPT !.produtos_e_servicos = <<ItemBom, ItemQueLevanta>>]}

\* an instance without and an instance with a contingency justification
EnginesExportar == {EngineBase, Engine(FALSE, S("Sem conexao com a SEFAZ"), FALSE, "-03:00")}

InitExportar ==
    /\ eng \in EnginesExportar
    /\ fonte = FonteVazia
    /\ hist = <<>>
    /\ ret = NotCalled
    /\ prod = Unused /\ ctx = Unused /\ nf = Unused /\ evento = Unused /\ qr = Unused
    /\ pc = Unused /\ inicial = Unused

\* the application adds a NotaFiscal to the data source
AdicionarObjeto ==
    /\ fonte # Unused
    /\ fonte.adicionados < MaxObjetos
    /\ \E n \in NotasExportar : fonte' = adicionar_objeto(fonte, n)
    /\ UNCHANGED <<prod, ctx, nf, eng, evento, qr, hist, pc, inicial, ret>>

\* one call of exportar(limpar=limpar)
Exportar ==
    /\ fonte # Unused
    /\ Len(hist) < MaxChamadas
    /\ \E limpar \in BOOLEAN, rs \in {Tentativas(eng, obter_lista(fonte))} :
          /\ ret' = exportar(rs)
          /\ fonte' = FonteAposExportar(eng, fonte, limpar, rs)
          /\ hist' = Append(hist, [limpar |-> limpar, st |-> exportar(rs).st,
                                   ids |-> {fonte.dados[i].id : i \in Alcancados(rs)}])
    /\ UNCHANGED <<prod, ctx, nf, eng, evento, qr, pc, inicial>>

NextExportar == AdicionarObjeto \/ Exportar

SpecExportar == InitExportar /\ [][NextExportar]_vars

-----------------------------------------------------------------------------
(* Properties of exportar *)

\* the numbers of the documents a data source holds, in order
IdsDe(f) == [i \in 1..Len(f.dados) |-> f.dados[i].id]

-----------------------------------------------------------------------------
(* SpecChamadas: callers, each with a Serializacao instance of its own, that run
   _serializar_nota_fiscal on document records they may share. A call is two
   steps: lines 698-700, which may write the record, and the rest of the method
   from line 701, which reads the record as it then is. *)

MaxChamadores == 2

Chamadores == 1..MaxChamadores

\* the document records the application holds
Documentos == 1..2

\* a record with the normal emission code and one that already has a contingency code
NotasChamadas == {[NotaBase EXCEPT !.forma_emissao = fe] : fe \in {"1", "5"}}

EnginesChamadas == {EngineBase, Engine(FALSE, S("Sem conexao com a SEFAZ"), FALSE, "-03:00")}

InitChamadas ==
    /\ eng \in [Chamadores -> EnginesChamadas]
    /\ nf \in [Documentos -> NotasChamadas]
    /\ inicial = nf
    /\ pc = [c \in Chamadores |-> [em |-> "fora", doc |-> 1]]
    /\ ret = [c \in Chamadores |-> NotCalled]
    /\ prod = Unused /\ ctx = Unused /\ evento = Unused /\ qr = Unused
    /\ fonte = Unused /\ hist = Unused

\* caller c enters _serializar_nota_fiscal(nf[d])
Chamar(c) ==
    /\ pc[c].em = "fora"
    /\ \E d \in Documentos : pc' = [pc EXCEPT ![c] = [em |-> "inicio", doc |-> d]]
    /\ UNCHANGED <<prod, ctx, nf, eng, evento, qr, fonte, hist, inicial, ret>>

\* lines 698-700 of the call of c
Reescrever(c) ==
    /\ pc[c].em = "inicio"
    /\ nf' = [nf EXCEPT ![pc[c].doc] = NotaAposContingencia(eng[c], @)]
    /\ pc' = [pc EXCEPT ![c].em = "ide"]
    /\ UNCHANGED <<prod, ctx, eng, evento, qr, fonte, hist, inicial, ret>>

\* line 701 to the return of the call of c
Construir(c) ==
    /\ pc[c].em = "ide"
    /\ ret' = [ret EXCEPT ![c] = serializar_nota_fiscal(eng[c], nf[pc[c].doc])]
    /\ pc' = [pc EXCEPT ![c].em = "fim"]
    /\ UNCHANGED <<prod, ctx, nf, eng, evento, qr, fonte, hist, inicial>>

NextChamadas == \E c \in Chamadores : Chamar(c) \/ Reescrever(c) \/ Construir(c)

SpecChamadas == InitChamadas /\ [][NextChamadas]_vars

-----------------------------------------------------------------------------
(* Properties of calls that share a document record *)

\* C21: in every interleaving of callers that each have an instance of their own,
\* every finished call has yielded what the same call yields when it runs alone on
\* the record as it was handed over, also when two callers pass the same record.
C21_CadaChamadaComoSozinha ==
    \A c \in Chamadores :
        pc[c].em = "fim" => ret[c] = serializar_nota_fiscal(eng[c], inicial[pc[c].doc])

-----------------------------------------------------------------------------
(* Properties of the contingency mode of _serializar_nota_fiscal *)

\* C22: a call on an instance that has a contingency justification, for a document
\* whose emission code is already a contingency code (not '1'), ends in a
\* consistency error and returns no document.
C22_ContingenciaSobreContingencia ==
    [][(ret.st = "none" /\ eng.contingencia # None /\ nf.forma_emissao # "1")
         => (ret'.st = "raise" /\ ret'.err = "ConsistencyError")]_vars

\* the instance of the call with its contingency justification taken away
SemContingencia(e) == [e EXCEPT !.contingencia = None]

\* the last n tags of the ide section of a finished document
FimDoIde(doc, n) ==
    SubSeq(Tags(IdeDe(doc)), Len(IdeDe(doc)) - n + 1, Len(IdeDe(doc)))

\* C26: with a contingency justification, a document of emission code '1' (that
\* serializes without contingency) serializes, its ide has tpEmis '9' and ends with
\* dhCont, the emission timestamp, followed by xJust, the justification; without a
\* contingency justification a finished document has neither dhCont nor xJust and
\* its tpEmis is the input code.
C26_ContingenciaRegistrada ==
    [][ret.st = "none" =>
          /\ (/\ eng.contingencia # None
              /\ nf.forma_emissao = "1"
              /\ serializar_nota_fiscal(SemContingencia(eng), nf).st = "ok")
             => /\ ret'.st = "ok"
                /\ TextAt(IdeDe(ret'.val), "tpEmis") = "9"
                /\ FimDoIde(ret'.val, 2) = <<"dhCont", "xJust">>
                /\ TextAt(IdeDe(ret'.val), "dhCont") = nf.data_emissao \o eng.tz
                /\ TextAt(IdeDe(ret'.val), "xJust") = eng.contingencia[1]
          /\ (eng.contingencia = None /\ ret'.st = "ok")
             => /\ ~HasTag(IdeDe(ret'.val), "dhCont")
                /\ ~HasTag(IdeDe(ret'.val), "xJust")
                /\ TextAt(IdeDe(ret'.val), "tpEmis") = nf.forma_emissao]_vars

-----------------------------------------------------------------------------
(* Properties of the detail block of an event *)

DetEventoDe(ev) == Find(Find(ev.kids, "infEvento").kids, "detEvento").kids

\* tab, line feed, carriage return and form feed
CaracteresDeControle == {"\t", "\n", "\r", "\f"}

\* C25: the detail block holds, after descEvento, nProt then xJust for a
\* cancellation, xCorrecao then xCondUso for a correction letter, xJust alone for an
\* operation not realized; xCorrecao is the correction text without its control
\* characters, the other characters in their order.
C25_PayloadDoEvento ==
    (ret.st # "none" /\ evento.descricao \in DescricoesConhecidas) =>
        /\ ret.st = "ok"
        /\ LET det == DetEventoDe(ret.val)
               payload == SubSeq(det, 2, Len(det))
           IN /\ det[1].tag = "descEvento"
              /\ evento.descricao = "Cancelamento" =>
                    /\ Tags(payload) = <<"nProt", "xJust">>
                    /\ Textos(payload) = <<evento.protocolo, evento.justificativa>>
              /\ evento.descricao = "Carta de Correcao" =>
                    /\ Tags(payload) = <<"xCorrecao", "xCondUso">>
                    /\ Textos(payload)
                         = <<JoinChars(SelectSeq(evento.correcao,
                                                 LAMBDA ch : ch \notin CaracteresDeControle)),
                             evento.cond_uso>>
              /\ evento.descricao = "Operacao nao Realizada" =>
                    /\ Tags(payload) = <<"xJust">>
                    /\ Textos(payload) = <<evento.justificativa>>

-----------------------------------------------------------------------------
(* Properties of the payment section *)

\* the declared payment method as two digits
MetodoEmDoisDigitos(tp) == IF tp < 10 THEN "0" \o ToString(tp) ELSE ToString(tp)

\* C23 (as written): for a purpose other than adjustment or return, tPag is the
\* declared method padded to two digits and vPag is the grand total of the document
\* with two decimal places, for every declared method.
C23_TotalParaTodoMetodo ==
    (ret.st = "ok" /\ nf.finalidade_emissao \notin {"3", "4"}) =>
        /\ TextAt(DetPagDe(ret.val), "tPag") = MetodoEmDoisDigitos(nf.tipo_pagamento)
        /\ TextAt(DetPagDe(ret.val), "vPag") = Fmt(nf.totais_icms_total_nota, 2)

\* C23 (amended): for a purpose other than adjustment or return, tPag is the declared
\* method padded to two digits; vPag is the grand total of the document with two
\* decimal places for every method but 90 (no payment), for which it is 0.00.
C23_TotalSalvoSemPagamento ==
    (ret.st = "ok" /\ nf.finalidade_emissao \notin {"3", "4"}) =>
        /\ CountTag(DetPagDe(ret.val), "tPag") = 1
        /\ CountTag(DetPagDe(ret.val), "vPag") = 1
        /\ TextAt(DetPagDe(ret.val), "tPag") = MetodoEmDoisDigitos(nf.tipo_pagamento)
        /\ TextAt(DetPagDe(ret.val), "vPag")
             = IF nf.tipo_pagamento = 90 THEN "0.00" ELSE Fmt(nf.totais_icms_total_nota, 2)

\* a normal document of total 100.00 that declares method 90 came out with vPag 0.00
C23_SemPagamentoComTotal ==
    /\ ret.st = "ok"
    /\ nf.finalidade_emissao = "1"
    /\ nf.tipo_pagamento = 90
    /\ nf.totais_icms_total_nota = Dec(10000, 2)
    /\ TextAt(DetPagDe(ret.val), "tPag") = "90"
    /\ TextAt(DetPagDe(ret.val), "vPag") = "0.00"

\* the children of the <card> block of a finished document
CardDe(doc) == Find(DetPagDe(doc), "card").kids

\* an optional str of the record is supplied: neither None nor empty
Fornecido(x) == x # None /\ x[1] # ""

\* the same for a text the record holds character by character
FornecidoEmCaracteres(x) == x # None /\ x[1] # <<>>

\* C24: in the card block each of CNPJ, tBand, cAut, CNPJReceb and idTermPag is there
\* exactly when the record supplies it, vTroco is there exactly when the change
\* amount is supplied and greater than zero, and no field of the block has an empty
\* text.
C24_CamposDoCartaoSoQuandoFornecidos ==
    (ret.st = "ok" /\ HasTag(DetPagDe(ret.val), "card")) =>
        LET card == CardDe(ret.val)
        IN /\ HasTag(card, "CNPJ") <=> FornecidoEmCaracteres(nf.cartao_cnpj)
           /\ HasTag(card, "tBand") <=> Fornecido(nf.cartao_tipo_bandeira)
           /\ HasTag(card, "cAut") <=> Fornecido(nf.cartao_numero_autorizacao)
           /\ HasTag(card, "CNPJReceb") <=> FornecidoEmCaracteres(nf.cartao_cnpj_receb)
           /\ HasTag(card, "idTermPag") <=> Fornecido(nf.cartao_terminal_pgto)
           /\ HasTag(card, "vTroco") <=>
                 (nf.cartao_valor_troco # None /\ nf.cartao_valor_troco[1] > 0)
           /\ \A i \in 1..Len(card) : card[i].text # ""

-----------------------------------------------------------------------------
(* Properties of the totals section *)

IcmsTotDe(doc) == Find(Find(doc.kids, "total").kids, "ICMSTot").kids

\* the aggregate is in the totals exactly when its source value is present and
\* non-zero, and its text is then that value with two decimal places
AgregadoOpcional(tot, tag, valor) ==
    IF valor # None /\ valor[1] # 0
    THEN CountTag(tot, tag) = 1 /\ TextAt(tot, tag) = Fmt(valor, 2)
    ELSE ~HasTag(tot, tag)

\* C29: each of vFCPUFDest, vICMSUFDest, vICMSUFRemet and vTotTrib is emitted exactly
\* when its own source value is present and non-zero, with that value at two decimal
\* places: the value that decides the presence is the value that is written, so no
\* call fails on account of the two sender-share fields.
C29_AgregadosOpcionaisDoTotal ==
    ret.st # "none" =>
        /\ ret.st = "raise" => serializar_nota_fiscal(
                                   eng, [nf EXCEPT !.totais_icms_inter_remetente = None,
                                                   !.totais_icms_remetente = None]).st = "raise"
        /\ ret.st = "ok" =>
              LET tot == IcmsTotDe(ret.val)
              IN /\ AgregadoOpcional(tot, "vFCPUFDest", nf.totais_fcp_destino)
                 /\ AgregadoOpcional(tot, "vICMSUFDest", nf.totais_icms_inter_destino)
                 /\ AgregadoOpcional(tot, "vICMSUFRemet", nf.totais_icms_inter_remetente)
                 /\ AgregadoOpcional(tot, "vTotTrib", nf.totais_tributos_aproximado)

-----------------------------------------------------------------------------
(* Properties of the carried-forward substitution values of codes 60 and 500 *)

\* a value of the item with two or four decimal places, zero when it is absent
ValorOuZero(v, casas) == Fmt(IF v = None THEN Dec(0, 0) ELSE v, casas)

\* C28: for codes 60 and 500, when the document is not final-consumer or the
\* substitution tax was already withheld, the call returns and the node has
\* vBCSTRet, pST, vICMSSubstituto and vICMSSTRet equal to the item's substitution
\* base, rate, substitute value and substitution-tax value, an absent value written
\* as zero; the texts are therefore the same for code 60 and for code 500.
C28_ValoresCalculadosLevados ==
    (/\ ret.st # "none"
     /\ prod.icms_modalidade \in {"60", "500"}
     /\ ~BaseIssqnNaoZero
     /\ ~ConsumidorFinalSemRetencao) =>
        /\ ret.st = "ok"
        /\ LET k == IcmsDe(ret.val)[1].kids
           IN /\ TextAt(k, "vBCSTRet") = ValorOuZero(prod.icms_st_valor_base_calculo, 2)
              /\ TextAt(k, "pST") = ValorOuZero(prod.icms_st_aliquota, 4)
              /\ TextAt(k, "vICMSSubstituto") = ValorOuZero(prod.icms_st_substituto, 2)
              /\ TextAt(k, "vICMSSTRet") = ValorOuZero(prod.icms_st_valor, 2)

-----------------------------------------------------------------------------
(* Frame of a serialization call *)

\* the tpEmis of the document a caller got
TpEmisDe(c) == TextAt(IdeDe(ret[c].val), "tpEmis")

\* C27: no step of a call changes the configuration of any instance, and no step
\* changes a document record, except that lines 698-700 of a call on an instance with
\* a contingency justification rewrite the emission code '1' of the record of the call
\* to '9', and do so every time; a call on an instance without contingency returns
\* a document whose tpEmis is the code the record holds when line 701 reads it, so '9'
\* for a record rewritten before.
C27_SoFormaEmissaoReescrita ==
    /\ [][/\ eng' = eng
          /\ \A d \in Documentos :
                \/ nf'[d] = nf[d]
                \/ /\ nf[d].forma_emissao = "1"
                   /\ nf'[d] = [nf[d] EXCEPT !.forma_emissao = "9"]
                   /\ \E c \in Chamadores :
                         /\ pc[c] = [em |-> "inicio", doc |-> d]
                         /\ pc'[c].em = "ide"
                         /\ eng[c].contingencia # None
          /\ \A c \in Chamadores :
                (pc[c].em = "ide" /\ pc'[c].em = "fim" /\ eng[c].contingencia = None)
                   => /\ ret'[c].st = "ok"
                      /\ TextAt(IdeDe(ret'[c].val), "tpEmis")
                           = nf[pc[c].doc].forma_emissao]_vars
    /\ [](\A c \in Chamadores :
            /\ (pc[c].em \in {"ide", "fim"} /\ eng[c].contingencia # None)
                  => nf[pc[c].doc].forma_emissao # "1"
            /\ (pc[c].em = "fim" /\ eng[c].contingencia = None)
                  => /\ ret[c].st = "ok"
                     /\ TpEmisDe(c) \in {inicial[pc[c].doc].forma_emissao, "9"})

\* a record of emission code '1' went through a call with contingency and then
\* through a whole call without contingency, whose document has tpEmis '9'; the
\* record holds '9', the other record and both instances are as they were
C27_RegistroReescritoSerializadoDepois ==
    /\ pc[1] = [em |-> "fim", doc |-> 1]
    /\ pc[2] = [em |-> "fim", doc |-> 1]
    /\ eng[1].contingencia # None
    /\ eng[2].contingencia = None
    /\ inicial[1].forma_emissao = "1"
    /\ nf[1] = [inicial[1] EXCEPT !.forma_emissao = "9"]
    /\ nf[2] = inicial[2]
    /\ ret[1].st = "raise"
    /\ ret[2].st = "ok"
    /\ TpEmisDe(2) = "9"

-----------------------------------------------------------------------------
(* Frame of gerar_qrcode *)

\* what one more call with the same token, csc and mode gives on the tree as the
\* first call left it
SegundaChamada == gerar_qrcode(qr.token, qr.csc, qr.xml, qr.return_qr, qr.online)

\* C30: a call that returns has left the tree it was given without infNFeSupl, as it
\* was, and one more call on that tree with the same token, csc and mode returns the
\* same document, which has exactly one infNFeSupl.
C30_ArvoreDeEntradaInalterada ==
    ret.st = "ok" =>
        /\ ~HasTag(qr.xml.kids, "infNFeSupl")
        /\ SegundaChamada = ret
        /\ CountTag(SegundaChamada.val.nfe.kids, "infNFeSupl") = 1

====
